---------------------------- MODULE Spec2Model ----------------------------
(***************************************************************************)
(* A model of the `indexing` crate: branded indices and ranges that are    *)
(* trusted to be in bounds of a container, the container wrapper that      *)
(* vets, derives and redeems them, and the pointer variants.               *)
(*                                                                         *)
(* A particle's brand is its scope: every particle and every handle of     *)
(* one behaviour of this model bears the same brand.  A proof parameter    *)
(* is the string "NonEmpty" or "Unknown".  usize is 0..UsizeMax, a word    *)
(* of WordBits bits; a container is never longer than isize::MAX.          *)
(***************************************************************************)
EXTENDS Integers, Sequences, FiniteSets, TLC

\* ------------------------------------------------------------- bounds

\* Longest container a scope is opened on.
MaxLen == 3
\* Width of the modelled machine word.
WordBits == 5
\* Most parts a test asks subdivide for.
MaxParts == 3
\* Longest container whose ranges are subdivided.
MaxSubLen == 8
\* Most times a closure calls next() on an exhausted iterator.
MaxNones == 2
\* Longest sorted slice searched, and the largest element of a searched slice.
MaxSortedLen == 8
MaxElem == 4
\* Largest element of a slice of distinct elements that is searched.
MaxKey == 7
\* Slices sorted are up to MaxOver longer than the insertion-sort threshold;
\* their elements are (i * m) % q for m up to MaxMul and q up to MaxMod.
MaxOver == 2
MaxMul == 5
MaxMod == 7
\* Longest slice of elements 0..2 made a heap.
MaxHeapLen == 6
\* Longest data merged, and the largest element of it.
MaxMergeLen == 5
MaxMergeElem == 2
\* Most elements a scope adds with push and insert.
MaxGrow == 2
\* Most calls the closure of a scope makes.
MaxCalls == 5
\* Most handles a scope holds of its container, clones included.
MaxHandles == 2

\* limit for switching to insertion sort
QS_INSERTION_SORT_THRESH == 24

Modulus == 2 ^ WordBits
UsizeMax == Modulus - 1

\* Element values: a predicate either accepts an element or not.
Elems == {0, 1}

\* ---------------------------------------------------- usize arithmetic

wrapping_add(a, b) == (a + b) % Modulus
wrapping_sub(a, b) == (a - b + Modulus) % Modulus
saturating_add(a, b) == IF a + b > UsizeMax THEN UsizeMax ELSE a + b
\* a + b and a - b leave usize: a panic in a debug build, a wrap in a release build
add_overflows(a, b) == a + b > UsizeMax
sub_overflows(a, b) == a < b
min(a, b) == IF a <= b THEN a ELSE b
max(a, b) == IF a >= b THEN a ELSE b

\* ------------------------------------------------------ result values

Ok(v) == [ok |-> TRUE, val |-> v]
Err == [ok |-> FALSE]
Some(v) == [some |-> TRUE, val |-> v]
None == [some |-> FALSE]
\* What a call gave: a value, or a panic.
Returned(v) == [panic |-> FALSE, val |-> v]
Panicked == [panic |-> TRUE]

\* ------------------------------------------------------------- proofs

NonEmpty == "NonEmpty"
Unknown == "Unknown"
Proofs == {NonEmpty, Unknown}

\* (NonEmpty, Q)::Sum = NonEmpty, (Unknown, Q)::Sum = Q
ProofAdd(P, Q) == IF P = NonEmpty THEN NonEmpty ELSE Q

\* ---------------------------------------------------------- particles

Index_new(index, P) == [index |-> index, proof |-> P]

Range_from(start, end) == [start |-> start, end |-> end, proof |-> Unknown]
Range_from_ne(start, end) == [start |-> start, end |-> end, proof |-> NonEmpty]
Range_from_any(start, end, P) == [start |-> start, end |-> end, proof |-> P]

\* PartialEq for Range and for Index: the proofs are not compared.
Range_eq(a, b) == a.start = b.start /\ a.end = b.end

\* The data model's invariants of a particle of a container of length n.
RangeOK(r, n) ==
    /\ 0 <= r.start /\ r.start <= r.end /\ r.end <= n
    /\ (r.proof = NonEmpty => r.start < r.end)
IndexOK(i, n) ==
    IF i.proof = NonEmpty THEN 0 <= i.index /\ i.index < n
    ELSE 0 <= i.index /\ i.index <= n

\* Every range and index the data model allows on a container of length n.
Ranges(n) ==
    {r \in [start : 0 .. n, end : 0 .. n, proof : Proofs] : RangeOK(r, n)}
Indices(n) ==
    {i \in [index : 0 .. n, proof : Proofs] : IndexOK(i, n)}


\* ------------------------------------------------- Index (indexing.rs)

\* Index::after: the index directly after a NonEmpty index.
Index_after(i) == Index_new(wrapping_add(i.index, 1), Unknown)

\* ------------------------------------------------- Range (indexing.rs)

len(r) == wrapping_sub(r.end, r.start)

is_empty(r) == r.start >= r.end

nonempty_unchecked(r) == Ok([r EXCEPT !.proof = NonEmpty])
nonempty(r) ==
    IF ~is_empty(r) THEN Ok([r EXCEPT !.proof = NonEmpty]) ELSE Err

split_in_half_low(r) ==
    LET mid == wrapping_add((wrapping_sub(wrapping_sub(r.end, r.start), 1)) \div 2, r.start)
    IN  <<Range_from(r.start, mid), Range_from_any(mid, r.end, r.proof)>>
split_in_half(r) ==
    LET mid == wrapping_add(wrapping_sub(r.end, r.start) \div 2, r.start)
    IN  <<Range_from(r.start, mid), Range_from_any(mid, r.end, r.proof)>>

\* Range::split_at that does not clamp
Range_split_at_unclamped(r, index) ==
    LET mid == wrapping_add(r.start, index)
    IN  <<Range_from(r.start, mid), Range_from(mid, r.end), index <= len(r)>>

\* Range::split_at: `index` is relative to the range's start.
Range_split_at(r, index) ==
    LET mid == IF index > len(r) THEN r.end ELSE wrapping_add(r.start, index)
    IN  <<Range_from(r.start, mid), Range_from(mid, r.end), index <= len(r)>>

contains(r, abs_index) ==
    IF abs_index >= r.start /\ abs_index < r.end
    THEN Some(Index_new(abs_index, NonEmpty)) ELSE None

join_unchecked(a, b) ==
    Ok(Range_from_any(a.start, b.end, ProofAdd(a.proof, b.proof)))
join(a, b) ==
    IF a.end = b.start
    THEN Ok(Range_from_any(a.start, b.end, ProofAdd(a.proof, b.proof)))
    ELSE Err

join_cover_other_end(a, b) ==
    Range_from_any(a.start, b.end, ProofAdd(a.proof, b.proof))
join_cover(a, b) ==
    LET end == max(a.end, b.end)
    IN  Range_from_any(a.start, end, ProofAdd(a.proof, b.proof))

join_cover_both(a, b) ==
    LET start == min(a.start, b.start)
        end == max(a.end, b.end)
    IN  Range_from_any(start, end, ProofAdd(a.proof, b.proof))

frontiers(r) == <<Range_from(r.start, r.start), Range_from(r.end, r.end)>>

\* Range::forward_by: <<stepped, the index afterwards>>.
Range_forward_by(r, index, offset) ==
    LET i == wrapping_add(index.index, offset)
    IN  IF i < r.end THEN <<TRUE, [index EXCEPT !.index = i]>>
        ELSE <<FALSE, index>>

\* Range::forward_range_by: `r` moved by offset, clamped to self's end.
Range_forward_range_by(self, r, offset) ==
    LET start == min(saturating_add(r.start, offset), self.end)
        end == min(saturating_add(r.end, offset), self.end)
    IN  Range_from(start, end)

no_proof(r) == [r EXCEPT !.proof = Unknown]

first(r) == Index_new(r.start, r.proof)

upper_middle(r) == Index_new(wrapping_add(len(r) \div 2, r.start), r.proof)

past_the_end(r) == Index_new(r.end, Unknown)

lower_middle(r) ==
    Index_new(wrapping_add(wrapping_sub(len(r), 1) \div 2, r.start), NonEmpty)

last_end(r) == Index_new(r.end, NonEmpty)
last(r) == Index_new(wrapping_sub(r.end, 1), NonEmpty)

tail(r) == Range_from(wrapping_add(r.start, 1), r.end)

init(r) == Range_from(r.start, wrapping_sub(r.end, 1))

\* advance that steps whatever is left
advance_unchecked(r) == <<TRUE, [r EXCEPT !.start = wrapping_add(r.start, 1)]>>

\* Range::advance, advance_by, advance_back: <<stepped, the range afterwards>>.
advance(r) ==
    LET next == [r EXCEPT !.start = wrapping_add(r.start, 1)]
    IN  IF next.start < next.end THEN <<TRUE, next>> ELSE <<FALSE, r>>
advance_by(r, offset) ==
    LET next == [r EXCEPT !.start = saturating_add(r.start, offset)]
    IN  IF next.start < next.end THEN <<TRUE, next>> ELSE <<FALSE, r>>
advance_back(r) ==
    LET next == [r EXCEPT !.end = wrapping_sub(r.end, 1)]
    IN  IF next.start < next.end THEN <<TRUE, next>> ELSE <<FALSE, r>>

\* RangeIter: <<the item, the iterator afterwards>>.
into_iter(r) == [start |-> r.start, end |-> r.end]
RangeIter_next(it) ==
    IF it.start < it.end
    THEN <<Some(Index_new(it.start, NonEmpty)), [it EXCEPT !.start = it.start + 1]>>
    ELSE <<None, it>>
\* next_back yielding the end before stepping it down
RangeIter_next_back_end(it) ==
    IF it.start < it.end
    THEN <<Some(Index_new(it.end, NonEmpty)), [it EXCEPT !.end = it.end - 1]>>
    ELSE <<None, it>>
RangeIter_next_back(it) ==
    IF it.start < it.end
    THEN <<Some(Index_new(it.end - 1, NonEmpty)), [it EXCEPT !.end = it.end - 1]>>
    ELSE <<None, it>>

\* RangeIter::into_range
RangeIter_into_range(it) == Range_from(it.start, it.end)

\* Every index `for i in r` visits, in order.
RECURSIVE IterAll(_)
IterAll(it) ==
    LET step == RangeIter_next(it)
    IN  IF step[1].some THEN <<step[1].val>> \o IterAll(step[2]) ELSE <<>>
\* Every index `for i in r.into_iter().rev()` visits, in order.
RECURSIVE IterAllBack(_)
IterAllBack(it) ==
    LET step == RangeIter_next_back(it)
    IN  IF step[1].some THEN <<step[1].val>> \o IterAllBack(step[2]) ELSE <<>>

\* ------------------------------------- Container (container.rs), length n

empty_range == Range_from(0, 0)

range(n) == Range_from(0, n)

vet_inclusive(n, index) ==
    IF index <= n THEN Ok(Index_new(index, NonEmpty)) ELSE Err
vet(n, index) ==
    IF index < n THEN Ok(Index_new(index, NonEmpty)) ELSE Err

vet_range(n, start, end) ==
    IF start <= end /\ end <= n THEN Ok(Range_from(start, end)) ELSE Err

Container_split_at(n, index) ==
    <<Range_from(0, index.index), Range_from_any(index.index, n, index.proof)>>

\* split_after that splits at the index itself
split_after_at(n, index) ==
    <<Range_from_ne(0, index.index), Range_from(index.index, n)>>

split_after(n, index) ==
    LET mid == wrapping_add(index.index, 1)
    IN  <<Range_from_ne(0, mid), Range_from(mid, n)>>

split_around(n, r) == <<Range_from(0, r.start), Range_from(r.end, n)>>

\* range_of(..index) and range_of(index..)
range_of_to(n, index) == Range_from(0, index.index)
range_of_from(n, index) == Range_from(index.index, n)

before(n, index) == range_of_to(n, index)

\* after that starts at the index itself
after_from_index(n, index) == range_of_from(n, index)

after(n, index) == range_of_from(n, Index_after(index))

\* Container::forward, forward_by, backward: <<stepped, the index afterwards>>.
forward(n, index) ==
    LET i == wrapping_add(index.index, 1)
    IN  IF i < n THEN <<TRUE, [index EXCEPT !.index = i]>> ELSE <<FALSE, index>>
Container_forward_by(n, index, offset) ==
    LET i == wrapping_add(index.index, offset)
    IN  IF i < n THEN <<TRUE, [index EXCEPT !.index = i]>> ELSE <<FALSE, index>>
backward(n, index) ==
    LET i == index.index
    IN  IF i > 0 THEN <<TRUE, [index EXCEPT !.index = i - 1]>> ELSE <<FALSE, index>>

Container_forward_range_by(n, r, offset) ==
    LET start == saturating_add(r.start, offset)
        end == saturating_add(r.end, offset)
    IN  Range_from(min(n, start), min(n, end))

\* &self[r]: the elements of a range that lies in the container.
Slice(a, r) == [k \in 1 .. (r.end - r.start) |-> a[r.start + k]]

\* The number of leading elements of s that the closure f accepts, f being
\* the set of element values it returns true for.
RECURSIVE TakeWhile(_, _)
TakeWhile(s, f) ==
    IF s = <<>> \/ Head(s) \notin f THEN 0 ELSE 1 + TakeWhile(Tail(s), f)

Reverse(s) == [k \in 1 .. Len(s) |-> s[Len(s) + 1 - k]]

\* The number of elements of s a scan applies f to: up to and including
\* the first it refuses.
RECURSIVE Applications(_, _)
Applications(s, f) ==
    IF s = <<>> THEN 0
    ELSE IF Head(s) \notin f THEN 1 ELSE 1 + Applications(Tail(s), f)

\* scan_from without the step over index itself
scan_from_short(a, index, f) ==
    LET end == index.index + TakeWhile(Slice(a, after(Len(a), index)), f)
    IN  [start |-> index.index, end |-> end, proof |-> NonEmpty]

scan_from(a, index, f) ==
    LET end == index.index + TakeWhile(Slice(a, after(Len(a), index)), f) + 1
    IN  Range_from_ne(index.index, end)

scan_from_rev(a, index, f) ==
    LET start == index.index
                 - TakeWhile(Reverse(Slice(a, before(Len(a), index))), f)
    IN  Range_from_ne(start, index.index + 1)

scan_range(a, r, f) ==
    LET end == r.start + TakeWhile(Slice(a, r), f)
    IN  <<Range_from(r.start, end), Range_from(end, r.end)>>

\* What &self[i], &self[r] touch lies in the allocation of n elements.
IndexInBounds(n, index) == index.index < n
SliceInBounds(n, r) == r.start <= r.end /\ r.end <= n

\* ------------------------- calls that borrow or move elements (container.rs)

\* IntoCheckedRange::into: a NonEmpty range as it is, another one if nonempty().
IntoCheckedRange_into(r) == IF r.proof = NonEmpty THEN Ok(r) ELSE nonempty(r)

\* ptr::read, ptr::write of the element at offset o of the storage a
ptr_read(a, o) == a[o + 1]
ptr_write(a, o, v) == [a EXCEPT ![o + 1] = v]

\* ptr::copy: count elements from offset src to offset dst, as memmove does
ptr_copy(a, src, dst, count) ==
    [k \in 1 .. Len(a) |->
        IF dst <= k - 1 /\ k - 1 < dst + count THEN a[src + (k - 1 - dst) + 1]
        ELSE a[k]]

\* swap that moves the element at j to i and forgets the one that was at i
swap_overwrite(a, i, j) == ptr_write(a, i.index, ptr_read(a, j.index))

\* ptr::swap of the elements at offsets pi and pj, which may be the same
swap(a, i, j) ==
    LET pi == i.index
        pj == j.index
        tmp == ptr_read(a, pi)
    IN  ptr_write(ptr_write(a, pi, ptr_read(a, pj)), pj, tmp)

\* rotate1_up that leaves the elements where they are
rotate1_up_noop(a, r) == a

rotate1_up(a, r) ==
    LET c == IntoCheckedRange_into(r)
    IN  IF c.ok /\ first(c.val).index # last(c.val).index
        THEN LET last_ptr == last(c.val).index
                 first_ptr == first(c.val).index
                 tmp == ptr_read(a, last_ptr)
                 moved == ptr_copy(a, first_ptr, first_ptr + 1, len(c.val) - 1)
             IN  ptr_write(moved, first_ptr, tmp)
        ELSE a

rotate1_down(a, r) ==
    LET c == IntoCheckedRange_into(r)
    IN  IF c.ok /\ first(c.val).index # last(c.val).index
        THEN LET last_ptr == last(c.val).index
                 first_ptr == first(c.val).index
                 tmp == ptr_read(a, first_ptr)
                 moved == ptr_copy(a, first_ptr + 1, first_ptr, len(c.val) - 1)
             IN  ptr_write(moved, last_ptr, tmp)
        ELSE a

\* slice::from_raw_parts_mut(begin + start, length): the borrowed region
from_raw_parts_mut(start, length) == [at |-> start, len |-> length]

\* IndexMut<Range> for Container
index_mut_range(r) == from_raw_parts_mut(r.start, len(r))

\* index_twice that hands out both borrows whatever the ranges
index_twice_unchecked(r, s) == Ok(<<index_mut_range(r), index_mut_range(s)>>)

index_twice(r, s) ==
    IF r.end <= s.start
    THEN Ok(<<index_mut_range(r), index_mut_range(s)>>)
    ELSE Err

\* ------------------------------------------- subdivide (indexing.rs)

\* Frac(decimal, numerator, denominator)
next_interval(f, dec, frac) ==
    LET start == f[1]
        f0 == wrapping_add(f[1], dec)
        f1 == wrapping_add(f[2], frac)
        g == IF f1 >= f[3]
             THEN <<wrapping_add(f0, 1), wrapping_sub(f1, f[3]), f[3]>>
             ELSE <<f0, f1, f[3]>>
    IN  <<<<start, g[1]>>, g>>

\* FracStep::new without the collapse of `end` when the step is zero
FracStep_new_uncollapsed(start, end, divisor) ==
    LET length == wrapping_sub(end, start)
    IN  [f |-> <<start, 0, divisor>>,
         frac_step |-> length % divisor,
         decimal_step |-> length \div divisor,
         start |-> start,
         end |-> end]

FracStep_new(start, end, divisor) ==
    LET length == wrapping_sub(end, start)
        decimal_step == length \div divisor
        frac_step == length % divisor
    IN  [f |-> <<start, 0, divisor>>,
         frac_step |-> frac_step,
         decimal_step |-> decimal_step,
         start |-> start,
         end |-> IF decimal_step = 0 THEN start ELSE end]

\* FracStep::next: <<the interval, the stepper afterwards>>.
FracStep_next(fs) ==
    IF fs.f[1] >= fs.end THEN <<None, fs>>
    ELSE LET step == next_interval(fs.f, fs.decimal_step, fs.frac_step)
         IN  <<Some(step[1]), [fs EXCEPT !.f = step[2]]>>

subdivide(r, parts) ==
    [fs |-> FracStep_new(r.start, r.end, parts), range |-> Range_from(r.start, r.end)]

\* Subdivide::next: <<the range, the iterator afterwards>>.
Subdivide_next(sd) ==
    LET step == FracStep_next(sd.fs)
    IN  IF step[1].some
        THEN <<Some(Range_from_ne(step[1].val[1], step[1].val[2])),
               [sd EXCEPT !.fs = step[2]]>>
        ELSE <<None, sd>>

\* Every range a Subdivide yields, in order.
RECURSIVE SubdivideAll(_)
SubdivideAll(sd) ==
    LET step == Subdivide_next(sd)
    IN  IF step[1].some THEN <<step[1].val>> \o SubdivideAll(step[2]) ELSE <<>>

\* ------------------------------------------------------------ variables

VARIABLES
    arr,      \* the container's elements
    mode,     \* the container's mode: pointer-capable or index-only
    ra, rb,   \* two ranges the scope's closure holds
    ix,       \* an index the scope's closure holds
    calls,    \* the number of calls the scope's closure has made
    fault,    \* "oob" once memory outside the container has been accessed,
              \* "overflow" once usize arithmetic has overflowed
    res,      \* the call a one-call scope made, and what it returned
    handles,  \* every container handle of the scope, where it can clone them
    pr,       \* a pointer range the scope's closure holds
    tsize     \* mem::size_of::<T>() of the container's element type T

\* -------------------------------------- pointer particles (pointer.rs)

\* size_of::<T>() of an element type that is not zero-sized, in bytes
ElemSize == 2

\* Every buffer ever allocated has a number of its own, and lies at addresses
\* of its own, above every index, so that neither can pass for the other.
BufSize == ElemSize * (MaxLen + MaxGrow + 1)
BufAddr(b) == (b + 1) * BufSize

\* p.offset(count)
ptr_offset(p, count) == p + count * tsize

\* the number of steps between a and b
ptrdistance(a, b) == (a - b) \div tsize

PIndex_new(p, P) == [idx |-> p, proof |-> P]
PRange_new(start, end, P) == [start |-> start, end |-> end, proof |-> P]
PSlice_new(start, length, P) == [start |-> start, len |-> length, proof |-> P]

PRange_len(r) == ptrdistance(r.end, r.start)
PRange_is_empty(r) == r.start = r.end
PRange_nonempty(r) ==
    IF ~PRange_is_empty(r) THEN Ok(PRange_new(r.start, r.end, NonEmpty)) ELSE Err

PSlice_is_empty(r) == r.len = 0
PSlice_nonempty(r) ==
    IF ~PSlice_is_empty(r) THEN Ok(PSlice_new(r.start, r.len, NonEmpty)) ELSE Err

\* From<PSlice> for PRange and From<PRange> for PSlice
PRange_from(r) == PRange_new(r.start, ptr_offset(r.start, r.len), r.proof)
PSlice_from(r) == PSlice_new(r.start, ptrdistance(r.end, r.start), r.proof)

PRange_first(r) == PIndex_new(r.start, r.proof)
PRange_last(r) == PIndex_new(ptr_offset(r.end, -1), NonEmpty)

PRange_split_in_half(r) ==
    LET mid_offset == PRange_len(r) \div 2
        mid == ptr_offset(r.start, mid_offset)
    IN  <<PRange_new(r.start, mid, Unknown), PRange_new(mid, r.end, r.proof)>>

PRange_upper_middle(r) ==
    LET mid == ptrdistance(r.end, r.start) \div 2
    IN  PIndex_new(ptr_offset(r.start, mid), r.proof)

PRange_past_the_end(r) == PIndex_new(r.end, Unknown)

PRange_tail(r) == PRange_new(ptr_offset(r.start, 1), r.end, Unknown)
PRange_init(r) == PRange_new(r.start, ptr_offset(r.end, -1), Unknown)

\* PRange::advance, advance_back: <<stepped, the range afterwards>>.
PRange_advance(r) ==
    LET next_ptr == ptr_offset(r.start, 1)
    IN  IF next_ptr # r.end THEN <<TRUE, [r EXCEPT !.start = next_ptr]>>
        ELSE <<FALSE, r>>

PRange_advance_back(r) ==
    LET next_end == ptr_offset(r.end, -1)
    IN  IF r.start # next_end THEN <<TRUE, [r EXCEPT !.end = next_end]>>
        ELSE <<FALSE, r>>

PSlice_len(r) == r.len

PSlice_split_in_half(r) ==
    LET mid_offset == PSlice_len(r) \div 2
        mid == ptr_offset(r.start, mid_offset)
    IN  <<PSlice_new(r.start, mid_offset, Unknown),
          PSlice_new(mid, PSlice_len(r) - mid_offset, r.proof)>>

PSlice_first(r) == PIndex_new(r.start, r.proof)

PSlice_upper_middle(r) ==
    LET mid == PSlice_len(r) \div 2
    IN  PIndex_new(ptr_offset(r.start, mid), r.proof)

PSlice_past_the_end(r) == PIndex_new(ptr_offset(r.start, r.len), Unknown)

PSlice_last(r) == PIndex_new(ptr_offset(r.start, PSlice_len(r) - 1), NonEmpty)

PSlice_tail(r) == PSlice_new(ptr_offset(r.start, 1), r.len - 1, Unknown)
PSlice_init(r) == PSlice_new(r.start, r.len - 1, Unknown)

\* PSlice::advance, advance_back: <<stepped, the range afterwards>>.
PSlice_advance(r) ==
    IF PSlice_len(r) > 1
    THEN <<TRUE, [r EXCEPT !.start = ptr_offset(r.start, 1), !.len = r.len - 1]>>
    ELSE <<FALSE, r>>

PSlice_advance_back(r) ==
    IF PSlice_len(r) > 1 THEN <<TRUE, [r EXCEPT !.len = r.len - 1]>>
    ELSE <<FALSE, r>>


\* The pointer range and the pointer slice over the elements of a range.
PRangeOver(r) ==
    PRange_new(ptr_offset(BufAddr(0), r.start), ptr_offset(BufAddr(0), r.end), r.proof)
PSliceOver(r) == PSlice_new(ptr_offset(BufAddr(0), r.start), len(r), r.proof)

\* ---------------------------------------------------------------- state

scopeVars == <<arr, mode, tsize, ra, rb, ix, calls, fault>>
handleVars == <<handles, pr>>
vars == <<arr, mode, tsize, ra, rb, ix, calls, fault, res, handles, pr>>

N == Len(arr)

Arrays == UNION {[1 .. k -> Elems] : k \in 0 .. MaxLen}

\* usize arguments a caller passes: around the length, and the largest.
Args == (0 .. MaxLen + 1) \cup {UsizeMax}
\* Closures a caller passes to a scan, each the set of elements it accepts.
Closures == SUBSET Elems

Regs == {"a", "b"}
Reg(src) == IF src = "a" THEN ra ELSE rb
PutRange(dst, r) ==
    IF dst = "a" THEN ra' = r /\ rb' = rb ELSE rb' = r /\ ra' = ra
PutPair(pair) == ra' = pair[1] /\ rb' = pair[2]

NoCall == [op |-> "none"]
NoPointer == [proof |-> "none"]

\* Container<'id, Array, Mode>: Mode is () by default, or OnlyIndex
PointerMode == "()"
OnlyIndex == "OnlyIndex"

\* scope(arr, f): f is handed the container and its full range.
Init ==
    /\ arr \in Arrays
    /\ ra = range(Len(arr))
    /\ rb = range(Len(arr))
    /\ ix = first(range(Len(arr)))
    /\ mode = PointerMode
    /\ calls = 0
    /\ fault = "none"
    /\ res = NoCall
    /\ handles = <<>>
    /\ pr = NoPointer
    /\ tsize = ElemSize

Running == fault = "none" /\ calls < MaxCalls /\ calls' = calls + 1

\* A call whose arithmetic leaves usize ends the scope as far as it is followed.
Overflow == fault' = "overflow" /\ UNCHANGED <<ra, rb, ix>>

\* ------------------------------------ calls on the container in a scope

Call_range ==
    /\ Running
    /\ \E dst \in Regs : PutRange(dst, range(N))
    /\ UNCHANGED <<arr, ix, fault, mode, tsize, res, handleVars>>

Call_empty_range ==
    /\ Running
    /\ \E dst \in Regs : PutRange(dst, empty_range)
    /\ UNCHANGED <<arr, ix, fault, mode, tsize, res, handleVars>>

Call_vet ==
    /\ Running
    /\ \E k \in Args :
        LET v == vet(N, k) IN ix' = IF v.ok THEN v.val ELSE ix
    /\ UNCHANGED <<arr, ra, rb, fault, mode, tsize, res, handleVars>>

Call_vet_range ==
    /\ Running
    /\ \E k, m \in Args, dst \in Regs :
        LET v == vet_range(N, k, m)
        IN  PutRange(dst, IF v.ok THEN v.val ELSE Reg(dst))
    /\ UNCHANGED <<arr, ix, fault, mode, tsize, res, handleVars>>

Call_split_at ==
    /\ Running
    /\ PutPair(Container_split_at(N, ix))
    /\ UNCHANGED <<arr, ix, fault, mode, tsize, res, handleVars>>

Call_split_after ==
    /\ Running
    /\ ix.proof = NonEmpty
    /\ IF add_overflows(ix.index, 1) THEN Overflow
       ELSE PutPair(split_after(N, ix)) /\ UNCHANGED <<ix, fault>>
    /\ UNCHANGED <<arr, mode, tsize, res, handleVars>>

Call_split_around ==
    /\ Running
    /\ \E src \in Regs : PutPair(split_around(N, Reg(src)))
    /\ UNCHANGED <<arr, ix, fault, mode, tsize, res, handleVars>>

Call_before ==
    /\ Running
    /\ \E dst \in Regs : PutRange(dst, before(N, ix))
    /\ UNCHANGED <<arr, ix, fault, mode, tsize, res, handleVars>>

Call_after ==
    /\ Running
    /\ ix.proof = NonEmpty
    /\ IF add_overflows(ix.index, 1) THEN Overflow
       ELSE /\ \E dst \in Regs : PutRange(dst, after(N, ix))
            /\ UNCHANGED <<ix, fault>>
    /\ UNCHANGED <<arr, mode, tsize, res, handleVars>>

Call_forward ==
    /\ Running
    /\ ix.proof = NonEmpty
    /\ IF add_overflows(ix.index, 1) THEN Overflow
       ELSE ix' = forward(N, ix)[2] /\ UNCHANGED <<ra, rb, fault>>
    /\ UNCHANGED <<arr, mode, tsize, res, handleVars>>

Call_forward_by ==
    /\ Running
    /\ ix.proof = NonEmpty
    /\ \E offset \in Args :
        IF add_overflows(ix.index, offset) THEN Overflow
        ELSE /\ ix' = Container_forward_by(N, ix, offset)[2]
             /\ UNCHANGED <<ra, rb, fault>>
    /\ UNCHANGED <<arr, mode, tsize, res, handleVars>>

Call_backward ==
    /\ Running
    /\ ix.proof = NonEmpty
    /\ ix' = backward(N, ix)[2]
    /\ UNCHANGED <<arr, ra, rb, fault, mode, tsize, res, handleVars>>

Call_forward_range_by ==
    /\ Running
    /\ \E src, dst \in Regs, offset \in Args :
        PutRange(dst, Container_forward_range_by(N, Reg(src), offset))
    /\ UNCHANGED <<arr, ix, fault, mode, tsize, res, handleVars>>

\* A scan reads &self[after(index)], &self[..index] or &self[range].
Call_scan_from ==
    /\ Running
    /\ ix.proof = NonEmpty
    /\ IF add_overflows(ix.index, 1) THEN Overflow
       ELSE IF SliceInBounds(N, after(N, ix))
       THEN /\ \E f \in Closures, dst \in Regs : PutRange(dst, scan_from(arr, ix, f))
            /\ UNCHANGED <<ix, fault>>
       ELSE fault' = "oob" /\ UNCHANGED <<ra, rb, ix>>
    /\ UNCHANGED <<arr, mode, tsize, res, handleVars>>

Call_scan_from_rev ==
    /\ Running
    /\ ix.proof = NonEmpty
    /\ IF SliceInBounds(N, before(N, ix))
       THEN /\ \E f \in Closures, dst \in Regs :
                    PutRange(dst, scan_from_rev(arr, ix, f))
            /\ UNCHANGED fault
       ELSE fault' = "oob" /\ UNCHANGED <<ra, rb>>
    /\ UNCHANGED <<arr, ix, mode, tsize, res, handleVars>>

Call_scan_range ==
    /\ Running
    /\ \E src \in Regs :
        IF SliceInBounds(N, Reg(src))
        THEN /\ \E f \in Closures : PutPair(scan_range(arr, Reg(src), f))
             /\ UNCHANGED fault
        ELSE fault' = "oob" /\ UNCHANGED <<ra, rb>>
    /\ UNCHANGED <<arr, ix, mode, tsize, res, handleVars>>

\* &self[i] and &self[r]
Call_index ==
    /\ Running
    /\ ix.proof = NonEmpty
    /\ fault' = IF IndexInBounds(N, ix) THEN fault ELSE "oob"
    /\ UNCHANGED <<arr, ra, rb, ix, mode, tsize, res, handleVars>>

Call_index_range ==
    /\ Running
    /\ \E src \in Regs :
        fault' = IF SliceInBounds(N, Reg(src)) THEN fault ELSE "oob"
    /\ UNCHANGED <<arr, ra, rb, ix, mode, tsize, res, handleVars>>

\* ---------------------------------------- calls on a range in a scope

Call_nonempty ==
    /\ Running
    /\ \E src, dst \in Regs :
        LET v == nonempty(Reg(src))
        IN  PutRange(dst, IF v.ok THEN v.val ELSE Reg(dst))
    /\ UNCHANGED <<arr, ix, fault, mode, tsize, res, handleVars>>

Call_split_in_half ==
    /\ Running
    /\ \E src \in Regs :
        IF sub_overflows(Reg(src).end, Reg(src).start) THEN Overflow
        ELSE PutPair(split_in_half(Reg(src))) /\ UNCHANGED <<ix, fault>>
    /\ UNCHANGED <<arr, mode, tsize, res, handleVars>>

Call_Range_split_at ==
    /\ Running
    /\ \E src \in Regs, index \in Args :
        IF sub_overflows(Reg(src).end, Reg(src).start) THEN Overflow
        ELSE PutPair(Range_split_at(Reg(src), index)) /\ UNCHANGED <<ix, fault>>
    /\ UNCHANGED <<arr, mode, tsize, res, handleVars>>

Call_contains ==
    /\ Running
    /\ \E src \in Regs, k \in Args :
        LET v == contains(Reg(src), k) IN ix' = IF v.some THEN v.val ELSE ix
    /\ UNCHANGED <<arr, ra, rb, fault, mode, tsize, res, handleVars>>

Call_subdivide ==
    /\ Running
    /\ \E src, dst \in Regs, parts \in 1 .. MaxParts :
        IF sub_overflows(Reg(src).end, Reg(src).start) THEN Overflow
        ELSE LET all == SubdivideAll(subdivide(Reg(src), parts))
             IN  /\ \E k \in 1 .. Len(all) : PutRange(dst, all[k])
                 /\ UNCHANGED <<ix, fault>>
    /\ UNCHANGED <<arr, mode, tsize, res, handleVars>>

Call_join ==
    /\ Running
    /\ \E src, dst \in Regs :
        LET v == join(Reg(src), Reg(IF src = "a" THEN "b" ELSE "a"))
        IN  PutRange(dst, IF v.ok THEN v.val ELSE Reg(dst))
    /\ UNCHANGED <<arr, ix, fault, mode, tsize, res, handleVars>>

Call_join_cover ==
    /\ Running
    /\ \E src, dst \in Regs :
        PutRange(dst, join_cover(Reg(src), Reg(IF src = "a" THEN "b" ELSE "a")))
    /\ UNCHANGED <<arr, ix, fault, mode, tsize, res, handleVars>>

Call_join_cover_both ==
    /\ Running
    /\ \E src, dst \in Regs :
        PutRange(dst, join_cover_both(Reg(src), Reg(IF src = "a" THEN "b" ELSE "a")))
    /\ UNCHANGED <<arr, ix, fault, mode, tsize, res, handleVars>>

Call_frontiers ==
    /\ Running
    /\ \E src \in Regs : PutPair(frontiers(Reg(src)))
    /\ UNCHANGED <<arr, ix, fault, mode, tsize, res, handleVars>>

Call_Range_forward_by ==
    /\ Running
    /\ ix.proof = NonEmpty
    /\ \E src \in Regs, offset \in Args :
        IF add_overflows(ix.index, offset) THEN Overflow
        ELSE /\ ix' = Range_forward_by(Reg(src), ix, offset)[2]
             /\ UNCHANGED <<ra, rb, fault>>
    /\ UNCHANGED <<arr, mode, tsize, res, handleVars>>

Call_Range_forward_range_by ==
    /\ Running
    /\ \E src, dst \in Regs, offset \in Args :
        PutRange(dst, Range_forward_range_by(
                          Reg(src), Reg(IF src = "a" THEN "b" ELSE "a"), offset))
    /\ UNCHANGED <<arr, ix, fault, mode, tsize, res, handleVars>>

Call_no_proof ==
    /\ Running
    /\ \E src, dst \in Regs : PutRange(dst, no_proof(Reg(src)))
    /\ UNCHANGED <<arr, ix, fault, mode, tsize, res, handleVars>>

Call_first ==
    /\ Running
    /\ \E src \in Regs : ix' = first(Reg(src))
    /\ UNCHANGED <<arr, ra, rb, fault, mode, tsize, res, handleVars>>

Call_upper_middle ==
    /\ Running
    /\ \E src \in Regs :
        IF sub_overflows(Reg(src).end, Reg(src).start) THEN Overflow
        ELSE ix' = upper_middle(Reg(src)) /\ UNCHANGED <<ra, rb, fault>>
    /\ UNCHANGED <<arr, mode, tsize, res, handleVars>>

Call_past_the_end ==
    /\ Running
    /\ \E src \in Regs : ix' = past_the_end(Reg(src))
    /\ UNCHANGED <<arr, ra, rb, fault, mode, tsize, res, handleVars>>

Call_lower_middle ==
    /\ Running
    /\ \E src \in Regs :
        /\ Reg(src).proof = NonEmpty
        /\ IF sub_overflows(Reg(src).end, Reg(src).start)
              \/ sub_overflows(len(Reg(src)), 1)
           THEN Overflow
           ELSE ix' = lower_middle(Reg(src)) /\ UNCHANGED <<ra, rb, fault>>
    /\ UNCHANGED <<arr, mode, tsize, res, handleVars>>

Call_last ==
    /\ Running
    /\ \E src \in Regs :
        /\ Reg(src).proof = NonEmpty
        /\ IF sub_overflows(Reg(src).end, 1) THEN Overflow
           ELSE ix' = last(Reg(src)) /\ UNCHANGED <<ra, rb, fault>>
    /\ UNCHANGED <<arr, mode, tsize, res, handleVars>>

Call_tail ==
    /\ Running
    /\ \E src, dst \in Regs :
        /\ Reg(src).proof = NonEmpty
        /\ IF add_overflows(Reg(src).start, 1) THEN Overflow
           ELSE PutRange(dst, tail(Reg(src))) /\ UNCHANGED <<ix, fault>>
    /\ UNCHANGED <<arr, mode, tsize, res, handleVars>>

Call_init ==
    /\ Running
    /\ \E src, dst \in Regs :
        /\ Reg(src).proof = NonEmpty
        /\ IF sub_overflows(Reg(src).end, 1) THEN Overflow
           ELSE PutRange(dst, init(Reg(src))) /\ UNCHANGED <<ix, fault>>
    /\ UNCHANGED <<arr, mode, tsize, res, handleVars>>

\* advance, advance_by and advance_back step the range in place.
Call_advance ==
    /\ Running
    /\ \E src \in Regs :
        /\ Reg(src).proof = NonEmpty
        /\ IF add_overflows(Reg(src).start, 1) THEN Overflow
           ELSE PutRange(src, advance(Reg(src))[2]) /\ UNCHANGED <<ix, fault>>
    /\ UNCHANGED <<arr, mode, tsize, res, handleVars>>

Call_advance_by ==
    /\ Running
    /\ \E src \in Regs, offset \in Args :
        Reg(src).proof = NonEmpty /\ PutRange(src, advance_by(Reg(src), offset)[2])
    /\ UNCHANGED <<arr, ix, fault, mode, tsize, res, handleVars>>

Call_advance_back ==
    /\ Running
    /\ \E src \in Regs :
        /\ Reg(src).proof = NonEmpty
        /\ IF sub_overflows(Reg(src).end, 1) THEN Overflow
           ELSE PutRange(src, advance_back(Reg(src))[2]) /\ UNCHANGED <<ix, fault>>
    /\ UNCHANGED <<arr, mode, tsize, res, handleVars>>

\* for i in r: any of the indices the iterator yields.
Call_into_iter ==
    /\ Running
    /\ \E src \in Regs :
        LET all == IterAll(into_iter(Reg(src)))
        IN  \E k \in 1 .. Len(all) : ix' = all[k]
    /\ UNCHANGED <<arr, ra, rb, fault, mode, tsize, res, handleVars>>

Call_Index_after ==
    /\ Running
    /\ ix.proof = NonEmpty
    /\ IF add_overflows(ix.index, 1) THEN Overflow
       ELSE ix' = Index_after(ix) /\ UNCHANGED <<ra, rb, fault>>
    /\ UNCHANGED <<arr, mode, tsize, res, handleVars>>

Next ==
    \/ Call_range \/ Call_empty_range \/ Call_vet \/ Call_vet_range
    \/ Call_split_at \/ Call_split_after \/ Call_split_around
    \/ Call_before \/ Call_after
    \/ Call_forward \/ Call_forward_by \/ Call_backward
    \/ Call_forward_range_by
    \/ Call_scan_from \/ Call_scan_from_rev \/ Call_scan_range
    \/ Call_index \/ Call_index_range
    \/ Call_nonempty \/ Call_split_in_half \/ Call_Range_split_at
    \/ Call_contains \/ Call_subdivide
    \/ Call_join \/ Call_join_cover \/ Call_join_cover_both
    \/ Call_frontiers \/ Call_Range_forward_by \/ Call_Range_forward_range_by
    \/ Call_no_proof
    \/ Call_first \/ Call_upper_middle \/ Call_past_the_end
    \/ Call_lower_middle \/ Call_last
    \/ Call_tail \/ Call_init
    \/ Call_advance \/ Call_advance_by \/ Call_advance_back
    \/ Call_into_iter \/ Call_Index_after

Spec == Init /\ [][Next]_vars

\* --------------------------------------- a scope that makes one call
\*
\* The closure holds two ranges and an index that earlier calls gave it,
\* each as the data model allows it, makes one call and keeps the result.

Called(op, k, m, out) == [op |-> op, k |-> k, m |-> m, out |-> out]

ZeroArrays == {[i \in 1 .. k |-> 0] : k \in 0 .. MaxLen}

InitOps ==
    /\ arr \in ZeroArrays
    /\ ra \in Ranges(Len(arr))
    /\ rb \in Ranges(Len(arr))
    /\ ix \in Indices(Len(arr))
    /\ mode = PointerMode
    /\ calls = 0
    /\ fault = "none"
    /\ res = NoCall
    /\ handles = <<>>
    /\ pr = NoPointer
    /\ tsize = ElemSize

Fresh == res = NoCall /\ UNCHANGED scopeVars /\ UNCHANGED handleVars

Op_vet == Fresh /\ \E k \in Args : res' = Called("vet", k, 0, vet(N, k))

Op_vet_range ==
    Fresh /\ \E k, m \in Args : res' = Called("vet_range", k, m, vet_range(N, k, m))

Op_contains ==
    Fresh /\ \E k \in Args : res' = Called("contains", k, 0, contains(ra, k))

Op_into_iter == Fresh /\ res' = Called("into_iter", 0, 0, IterAll(into_iter(ra)))

Op_first == Fresh /\ res' = Called("first", 0, 0, first(ra))

Op_upper_middle == Fresh /\ res' = Called("upper_middle", 0, 0, upper_middle(ra))

Op_past_the_end == Fresh /\ res' = Called("past_the_end", 0, 0, past_the_end(ra))

Op_lower_middle ==
    Fresh /\ ra.proof = NonEmpty
          /\ res' = Called("lower_middle", 0, 0, lower_middle(ra))

Op_last == Fresh /\ ra.proof = NonEmpty /\ res' = Called("last", 0, 0, last(ra))

Op_Index_after ==
    Fresh /\ ix.proof = NonEmpty /\ res' = Called("after", 0, 0, Index_after(ix))

Op_nonempty == Fresh /\ res' = Called("nonempty", 0, 0, nonempty(ra))

Op_PRange_nonempty ==
    Fresh /\ res' = Called("PRange::nonempty", 0, 0, PRange_nonempty(PRangeOver(ra)))

Op_PSlice_nonempty ==
    Fresh /\ res' = Called("PSlice::nonempty", 0, 0, PSlice_nonempty(PSliceOver(ra)))

Op_no_proof == Fresh /\ res' = Called("no_proof", 0, 0, no_proof(ra))

Op_join == Fresh /\ res' = Called("join", 0, 0, join(ra, rb))

Op_join_cover == Fresh /\ res' = Called("join_cover", 0, 0, join_cover(ra, rb))

Op_frontiers == Fresh /\ res' = Called("frontiers", 0, 0, frontiers(ra))

Op_split_in_half ==
    Fresh /\ res' = Called("split_in_half", 0, 0, split_in_half(ra))

Op_advance ==
    Fresh /\ ra.proof = NonEmpty /\ res' = Called("advance", 0, 0, advance(ra))

Op_advance_by ==
    Fresh /\ ra.proof = NonEmpty
          /\ \E k \in Args : res' = Called("advance_by", k, 0, advance_by(ra, k))

Op_advance_back ==
    Fresh /\ ra.proof = NonEmpty
          /\ res' = Called("advance_back", 0, 0, advance_back(ra))

Op_Range_split_at ==
    Fresh /\ \E k \in Args : res' = Called("split_at", k, 0, Range_split_at(ra, k))

\* before(i).join(after(i))
Op_before_join_after ==
    Fresh /\ ix.proof = NonEmpty
          /\ res' = Called("before.join(after)", 0, 0,
                           join(before(N, ix), after(N, ix)))

\* forward, backward, forward_by: index.index + offset leaving usize is a
\* panic in a build with overflow checks and a wrap in one without.
Op_forward ==
    Fresh /\ ix.proof = NonEmpty
          /\ \E checks \in BOOLEAN :
                res' = Called("forward", 1, 0,
                              IF checks /\ add_overflows(ix.index, 1) THEN Panicked
                              ELSE Returned(forward(N, ix)))

Op_backward ==
    Fresh /\ ix.proof = NonEmpty
          /\ res' = Called("backward", 0, 0, Returned(backward(N, ix)))

Op_Container_forward_by ==
    Fresh /\ ix.proof = NonEmpty
          /\ \E k \in Args, checks \in BOOLEAN :
                res' = Called("forward_by", k, 0,
                              IF checks /\ add_overflows(ix.index, k) THEN Panicked
                              ELSE Returned(Container_forward_by(N, ix, k)))

Op_Range_forward_by ==
    Fresh /\ ix.proof = NonEmpty
          /\ \E k \in Args, checks \in BOOLEAN :
                res' = Called("Range::forward_by", k, 0,
                              IF checks /\ add_overflows(ix.index, k) THEN Panicked
                              ELSE Returned(Range_forward_by(ra, ix, k)))

\* Container::split_at, split_after, split_around, before, after
Op_Container_split_at ==
    Fresh /\ res' = Called("Container::split_at", ix, 0, Container_split_at(N, ix))

Op_split_after ==
    Fresh /\ ix.proof = NonEmpty
          /\ res' = Called("split_after", ix, 0, split_after(N, ix))

Op_split_around ==
    Fresh /\ res' = Called("split_around", ra, 0, split_around(N, ra))

Op_before == Fresh /\ res' = Called("Container::before", ix, 0, before(N, ix))

Op_after ==
    Fresh /\ ix.proof = NonEmpty
          /\ res' = Called("Container::after", ix, 0, after(N, ix))

NextOps ==
    \/ Op_advance \/ Op_advance_by \/ Op_advance_back
    \/ Op_forward \/ Op_backward \/ Op_Container_forward_by \/ Op_Range_forward_by
    \/ Op_Range_split_at \/ Op_before_join_after
    \/ Op_Container_split_at \/ Op_split_after \/ Op_split_around
    \/ Op_before \/ Op_after
    \/ Op_vet \/ Op_vet_range \/ Op_contains \/ Op_into_iter
    \/ Op_first \/ Op_upper_middle \/ Op_past_the_end
    \/ Op_lower_middle \/ Op_last \/ Op_Index_after
    \/ Op_nonempty \/ Op_PRange_nonempty \/ Op_PSlice_nonempty \/ Op_no_proof
    \/ Op_join \/ Op_join_cover \/ Op_frontiers \/ Op_split_in_half

SpecOps == InitOps /\ [][NextOps]_vars

\* ----------------------------- a scope that grows its container (Vec)

\* Pushable for Vec: push returns the index of the new element;
\* insert_unchecked is Vec::insert.
\* push returning the length after the push
Pushable_push_after(a, element) == <<Append(a, element), Len(a) + 1>>

Pushable_push(a, element) == <<Append(a, element), Len(a)>>

Pushable_insert_unchecked(a, index, element) ==
    [k \in 1 .. Len(a) + 1 |->
        IF k <= index THEN a[k] ELSE IF k = index + 1 THEN element ELSE a[k - 1]]

only_index(m) == OnlyIndex

\* Container::push: <<the storage afterwards, the index of the new element>>.
push(a, element) ==
    LET p == Pushable_push(a, element)
    IN  <<p[1], Index_new(p[2], NonEmpty)>>

\* Container::insert: the storage afterwards.
insert(a, index, element) == Pushable_insert_unchecked(a, index.index, element)

Grow_only_index ==
    /\ Running
    /\ mode = PointerMode
    /\ mode' = only_index(mode)
    /\ UNCHANGED tsize
    /\ UNCHANGED <<arr, ra, rb, ix, fault, res, handleVars>>

Grow_push ==
    /\ Running
    /\ mode = OnlyIndex
    /\ Len(arr) < MaxLen + MaxGrow
    /\ \E element \in Elems :
        /\ arr' = push(arr, element)[1]
        /\ ix' = push(arr, element)[2]
    /\ UNCHANGED <<mode, tsize, ra, rb, fault, res, handleVars>>

\* Vec::insert panics when the index is beyond the length.
Grow_insert ==
    /\ Running
    /\ mode = OnlyIndex
    /\ Len(arr) < MaxLen + MaxGrow
    /\ IF ix.index <= Len(arr)
       THEN /\ \E element \in Elems : arr' = insert(arr, ix, element)
            /\ UNCHANGED fault
       ELSE fault' = "panic" /\ UNCHANGED arr
    /\ UNCHANGED <<mode, tsize, ra, rb, ix, res, handleVars>>

NextGrow ==
    \/ Grow_only_index \/ Grow_push \/ Grow_insert
    \/ Call_range \/ Call_vet \/ Call_vet_range
    \/ Call_split_at \/ Call_split_after
    \/ Call_nonempty \/ Call_frontiers \/ Call_join \/ Call_join_cover
    \/ Call_first \/ Call_last \/ Call_past_the_end
    \/ Call_index

SpecGrow == Init /\ [][NextGrow]_vars

\* ------------------------ a scope that clones its container (Vec) handle

\* A handle: its Vec's elements, the buffer they lie in, its mode, and how
\* many elements have been pushed or inserted through it.
Container_new(a, b, m) == [arr |-> a, base |-> b, mode |-> m, grown |-> 0]

Container_begin(c) == BufAddr(c.base)
Container_end(c) == ptr_offset(Container_begin(c), Len(c.arr))

\* The number of the buffer the allocator hands out next.
NextBuf ==
    LET used == {handles[h].base : h \in DOMAIN handles}
    IN  1 + CHOOSE b \in used : \A c \in used : c <= b

\* Clone for Container: the same brand, a clone of the Vec in a buffer of its own.
Container_clone(c, b) == Container_new(c.arr, b, c.mode)

pointer_range(c) == PRange_new(Container_begin(c), Container_end(c), Unknown)
pointer_slice(c) == PSlice_new(Container_begin(c), Len(c.arr), Unknown)

\* The handle whose buffer holds the count elements at address p, 0 if none.
Holder(p, count) ==
    LET hs == {h \in DOMAIN handles :
                  /\ Container_begin(handles[h]) <= p
                  /\ ptr_offset(p, count) <= Container_end(handles[h])
                  /\ (p - Container_begin(handles[h])) % tsize = 0}
    IN  IF hs = {} THEN 0 ELSE CHOOSE h \in hs : TRUE
\* The position in its holder's Vec of the element at address p, from 1.
Slot(p) == ptrdistance(p, Container_begin(handles[Holder(p, 1)])) + 1

\* ptr::swap(i, j) on the memory of the handles
ptr_swap(hs, i, j) ==
    LET vi == hs[Holder(i, 1)].arr[Slot(i)]
        vj == hs[Holder(j, 1)].arr[Slot(j)]
        h1 == [hs EXCEPT ![Holder(i, 1)].arr[Slot(i)] = vj]
    IN  [h1 EXCEPT ![Holder(j, 1)].arr[Slot(j)] = vi]

\* rotate1_prange on the memory of the handles: the last element of r moves
\* to the front, the others one step up.
rotate1_prange(hs, r) ==
    LET h == Holder(r.start, PRange_len(r))
        lo == Slot(r.start)
        hi == lo + PRange_len(r) - 1
        a == hs[h].arr
    IN  [hs EXCEPT ![h].arr =
            [k \in 1 .. Len(a) |->
                IF k = lo THEN a[hi]
                ELSE IF k > lo /\ k <= hi THEN a[k - 1] ELSE a[k]]]

\* split_container_at_pointer: the two pointer ranges its closure is handed.
split_container_at_pointer(c, index) ==
    LET r == pointer_range(c)
    IN  <<PRange_new(r.start, index.idx, Unknown),
          PRange_new(index.idx, r.end, index.proof)>>

\* The impl blocks of the pointer methods are for Container<'id, Array>,
\* whose Mode is (); those of push and insert for Container<'id, Array, OnlyIndex>.
AnyMode(c) == TRUE
PointerCapable(c) == c.mode = PointerMode
IndexOnly(c) == c.mode = OnlyIndex

\* One Vec of each length, its elements alternating.
Vecs == {[i \in 1 .. k |-> i % 2] : k \in 0 .. MaxLen}

\* scope(vec, f): f is handed the one handle.
InitHandles ==
    /\ handles \in {<<Container_new(a, 0, PointerMode)>> : a \in Vecs}
    /\ pr = NoPointer
    /\ tsize = ElemSize
    /\ ix = first(range(Len(handles[1].arr)))
    /\ arr = <<>> /\ mode = PointerMode
    /\ ra = empty_range /\ rb = empty_range
    /\ calls = 0
    /\ fault = "none"
    /\ res = NoCall

H_clone ==
    /\ Running
    /\ Len(handles) < MaxHandles
    /\ \E h \in DOMAIN handles :
        /\ handles' = Append(handles, Container_clone(handles[h], NextBuf))
        /\ res' = Called("clone", h, 0, Len(handles) + 1)
    /\ UNCHANGED <<arr, mode, tsize, ra, rb, ix, fault, pr>>

H_only_index ==
    /\ Running
    /\ \E h \in DOMAIN handles :
        /\ handles[h].mode = PointerMode
        /\ handles' = [handles EXCEPT ![h].mode = only_index(handles[h].mode)]
        /\ res' = Called("only_index", h, 0, 0)
    /\ UNCHANGED <<arr, mode, tsize, ra, rb, ix, fault, pr>>

\* A Vec that grows keeps its buffer or moves to a new one.
H_push ==
    /\ Running
    /\ \E h \in DOMAIN handles, element \in Elems, moves \in BOOLEAN :
        /\ IndexOnly(handles[h])
        /\ handles[h].grown < MaxGrow
        /\ handles' = [handles EXCEPT ![h].arr = push(handles[h].arr, element)[1],
                                      ![h].grown = @ + 1,
                                      ![h].base = IF moves THEN NextBuf
                                                  ELSE handles[h].base]
        /\ ix' = push(handles[h].arr, element)[2]
        /\ res' = Called("push", h, 0, ix')
    /\ UNCHANGED <<arr, mode, tsize, ra, rb, fault, pr>>

H_insert ==
    /\ Running
    /\ \E h \in DOMAIN handles, element \in Elems, moves \in BOOLEAN :
        /\ IndexOnly(handles[h])
        /\ handles[h].grown < MaxGrow
        /\ res' = Called("insert", h, 0, 0)
        /\ IF ix.index <= Len(handles[h].arr)
           THEN /\ handles' = [handles EXCEPT
                                  ![h].arr = insert(handles[h].arr, ix, element),
                                  ![h].grown = @ + 1,
                                  ![h].base = IF moves THEN NextBuf
                                              ELSE handles[h].base]
                /\ UNCHANGED fault
           ELSE fault' = "panic" /\ UNCHANGED handles
    /\ UNCHANGED <<arr, mode, tsize, ra, rb, ix, pr>>

H_vet ==
    /\ Running
    /\ \E h \in DOMAIN handles, k \in Args :
        LET v == vet(Len(handles[h].arr), k)
        IN  /\ ix' = IF v.ok THEN v.val ELSE ix
            /\ res' = Called("vet", h, k, v)
    /\ UNCHANGED <<arr, mode, tsize, ra, rb, fault, handles, pr>>

\* &self[i]
H_index ==
    /\ Running
    /\ ix.proof = NonEmpty
    /\ \E h \in DOMAIN handles :
        /\ fault' = IF IndexInBounds(Len(handles[h].arr), ix) THEN fault ELSE "oob"
        /\ res' = Called("index", h, 0, 0)
    /\ UNCHANGED <<arr, mode, tsize, ra, rb, ix, handles, pr>>

H_pointer_range ==
    /\ Running
    /\ \E h \in DOMAIN handles :
        /\ PointerCapable(handles[h])
        /\ pr' = pointer_range(handles[h])
        /\ res' = Called("pointer_range", h, 0, pr')
    /\ UNCHANGED <<arr, mode, tsize, ra, rb, ix, fault, handles>>

H_pointer_slice ==
    /\ Running
    /\ \E h \in DOMAIN handles :
        /\ PointerCapable(handles[h])
        /\ pr' = PRange_from(pointer_slice(handles[h]))
        /\ res' = Called("pointer_slice", h, 0, pointer_slice(handles[h]))
    /\ UNCHANGED <<arr, mode, tsize, ra, rb, ix, fault, handles>>

\* PRange::nonempty, on the particle alone
H_PRange_nonempty ==
    /\ Running
    /\ pr # NoPointer
    /\ pr' = IF PRange_nonempty(pr).ok THEN PRange_nonempty(pr).val ELSE pr
    /\ res' = Called("PRange::nonempty", 0, 0, PRange_nonempty(pr))
    /\ UNCHANGED <<arr, mode, tsize, ra, rb, ix, fault, handles>>

\* &self[r], r a PRange: from_raw_parts(r.start, r.len())
H_index_prange ==
    /\ Running
    /\ pr # NoPointer
    /\ \E h \in DOMAIN handles :
        /\ PointerCapable(handles[h])
        /\ fault' = IF Holder(pr.start, PRange_len(pr)) # 0 THEN fault ELSE "oob"
        /\ res' = Called("index_prange", h, 0, 0)
    /\ UNCHANGED <<arr, mode, tsize, ra, rb, ix, handles, pr>>

\* &self[i], i a PIndex: &*i.ptr()
H_index_pindex ==
    /\ Running
    /\ pr # NoPointer /\ pr.proof = NonEmpty
    /\ \E h \in DOMAIN handles :
        /\ PointerCapable(handles[h])
        /\ fault' = IF Holder(PRange_first(pr).idx, 1) # 0 THEN fault ELSE "oob"
        /\ res' = Called("index_pindex", h, 0, 0)
    /\ UNCHANGED <<arr, mode, tsize, ra, rb, ix, handles, pr>>

H_swap_ptr ==
    /\ Running
    /\ pr # NoPointer /\ pr.proof = NonEmpty
    /\ \E h \in DOMAIN handles :
        LET i == PRange_first(pr).idx
            j == PRange_last(pr).idx
        IN  /\ PointerCapable(handles[h])
            /\ res' = Called("swap_ptr", h, 0, 0)
            /\ IF Holder(i, 1) # 0 /\ Holder(j, 1) # 0
               THEN handles' = ptr_swap(handles, i, j) /\ UNCHANGED fault
               ELSE fault' = "oob" /\ UNCHANGED handles
    /\ UNCHANGED <<arr, mode, tsize, ra, rb, ix, pr>>

H_rotate1_prange ==
    /\ Running
    /\ pr # NoPointer /\ pr.proof = NonEmpty
    /\ \E h \in DOMAIN handles :
        /\ PointerCapable(handles[h])
        /\ res' = Called("rotate1_prange", h, 0, 0)
        /\ IF Holder(pr.start, PRange_len(pr)) # 0
           THEN handles' = rotate1_prange(handles, pr) /\ UNCHANGED fault
           ELSE fault' = "oob" /\ UNCHANGED handles
    /\ UNCHANGED <<arr, mode, tsize, ra, rb, ix, pr>>

\* The closure is handed the halves as containers of brands of their own.
H_split_container_at_pointer ==
    /\ Running
    /\ pr # NoPointer
    /\ \E h \in DOMAIN handles :
        /\ PointerCapable(handles[h])
        /\ res' = Called("split_container_at_pointer", h, 0,
                         split_container_at_pointer(handles[h], PRange_first(pr)))
        /\ fault' = IF /\ Container_begin(handles[h]) <= PRange_first(pr).idx
                       /\ PRange_first(pr).idx <= Container_end(handles[h])
                    THEN fault ELSE "oob"
    /\ UNCHANGED <<arr, mode, tsize, ra, rb, ix, handles, pr>>

NextHandles ==
    \/ H_clone \/ H_only_index \/ H_push \/ H_insert \/ H_vet \/ H_index
    \/ H_pointer_range \/ H_pointer_slice \/ H_PRange_nonempty
    \/ H_index_prange \/ H_index_pindex
    \/ H_swap_ptr \/ H_rotate1_prange \/ H_split_container_at_pointer

SpecHandles == InitHandles /\ [][NextHandles]_vars

\* ------------------------------- a scope that steps a Subdivide iterator
\*
\* The closure asks a range of its container for `parts` parts and calls
\* next() on the iterator, also after it has returned None.

\* What the closure has seen of an iterator: the ranges it yielded, in
\* order, and how many times it returned None.
Stepping(op, k, it, out, nones) ==
    [op |-> op, k |-> k, it |-> it, out |-> out, nones |-> nones]

InitSubdivide ==
    /\ arr \in {[i \in 1 .. k |-> 0] : k \in 0 .. MaxSubLen}
    /\ ra \in Ranges(Len(arr))
    /\ rb = ra
    /\ ix = Index_new(0, Unknown)
    /\ mode = PointerMode
    /\ calls = 0
    /\ fault = "none"
    /\ res = NoCall
    /\ handles = <<>>
    /\ pr = NoPointer
    /\ tsize = ElemSize

Sub_subdivide ==
    /\ Fresh
    /\ \E parts \in (1 .. MaxParts) \cup {UsizeMax} :
        res' = Stepping("subdivide", parts, subdivide(ra, parts), <<>>, 0)

Sub_next ==
    /\ res.op = "subdivide"
    /\ res.nones < MaxNones
    /\ LET step == Subdivide_next(res.it)
       IN  res' = IF step[1].some
                  THEN [res EXCEPT !.it = step[2], !.out = Append(@, step[1].val)]
                  ELSE [res EXCEPT !.it = step[2], !.nones = @ + 1]
    /\ UNCHANGED scopeVars /\ UNCHANGED handleVars

NextSubdivide == Sub_subdivide \/ Sub_next

SpecSubdivide == InitSubdivide /\ [][NextSubdivide]_vars

\* --------------------- a scope that borrows or moves elements in place
\*
\* The container holds the elements 1, 2, ..., so that every element tells
\* where it came from.  The closure holds two ranges as the data model
\* allows them, and calls index_twice, swap, rotate1_up or rotate1_down.

Moved(op, i, j, was, n) ==
    [op |-> op, i |-> i, j |-> j, before |-> was, n |-> n]

InitMut ==
    /\ arr \in {[i \in 1 .. k |-> i] : k \in 0 .. MaxLen}
    /\ ra \in Ranges(Len(arr))
    /\ rb \in Ranges(Len(arr))
    /\ ix = Index_new(0, Unknown)
    /\ mode = PointerMode
    /\ calls = 0
    /\ fault = "none"
    /\ res = NoCall
    /\ handles = <<>>
    /\ pr = NoPointer
    /\ tsize = ElemSize

Mut_index_twice == Fresh /\ res' = Called("index_twice", 0, 0, index_twice(ra, rb))

Mut_swap ==
    /\ \/ /\ res = NoCall
          /\ \E i, j \in {x \in Indices(N) : x.proof = NonEmpty} :
                /\ arr' = swap(arr, i, j)
                /\ res' = Moved("swap", i, j, arr, 1)
       \/ /\ res.op = "swap" /\ res.n = 1
          /\ arr' = swap(arr, res.i, res.j)
          /\ res' = [res EXCEPT !.n = 2]
    /\ UNCHANGED <<ra, rb, ix, mode, tsize, calls, fault, handleVars>>

Mut_rotate1_up ==
    /\ res = NoCall
    /\ arr' = rotate1_up(arr, ra)
    /\ res' = Moved("rotate1_up", 0, 0, arr, 1)
    /\ UNCHANGED <<ra, rb, ix, mode, tsize, calls, fault, handleVars>>

Mut_rotate1_down ==
    /\ \/ res = NoCall /\ res' = Moved("rotate1_down", 0, 0, arr, 1)
       \/ res.op = "rotate1_up" /\ res.n = 1 /\ res' = [res EXCEPT !.n = 2]
    /\ arr' = rotate1_down(arr, ra)
    /\ UNCHANGED <<ra, rb, ix, mode, tsize, calls, fault, handleVars>>

NextMut == Mut_index_twice \/ Mut_swap \/ Mut_rotate1_up \/ Mut_rotate1_down

SpecMut == InitMut /\ [][NextMut]_vars

\* ------------------ a scope that asks a PRange and a PSlice the same thing
\*
\* The closure holds the pointer range and the pointer slice over the same
\* elements of its container, whose element type is zero-sized or not, and
\* makes the same call on each.  A PRange typed NonEmpty has start # end,
\* so there is none over zero-sized elements.


InitPointers ==
    /\ arr \in ZeroArrays
    /\ tsize \in {0, ElemSize}
    /\ ra \in {r \in Ranges(Len(arr)) : tsize = 0 => r.proof = Unknown}
    /\ rb = ra
    /\ ix = Index_new(0, Unknown)
    /\ mode = PointerMode
    /\ calls = 0
    /\ fault = "none"
    /\ res = NoCall
    /\ handles = <<>>
    /\ pr = NoPointer

\* res.out is <<what the PRange gave, what the PSlice gave>>
Both(op, p, s) == Called(op, 0, 0, <<p, s>>)

Ptr_len ==
    Fresh /\ res' = Both("len",
        IF tsize = 0 THEN Panicked ELSE Returned(PRange_len(PRangeOver(ra))),
        Returned(PSlice_len(PSliceOver(ra))))

Ptr_is_empty ==
    Fresh /\ res' = Both("is_empty",
        Returned(PRange_is_empty(PRangeOver(ra))),
        Returned(PSlice_is_empty(PSliceOver(ra))))

Ptr_nonempty ==
    Fresh /\ res' = Both("nonempty",
        Returned(PRange_nonempty(PRangeOver(ra))),
        Returned(PSlice_nonempty(PSliceOver(ra))))

Ptr_split_in_half ==
    Fresh /\ res' = Both("split_in_half",
        IF tsize = 0 THEN Panicked
        ELSE Returned(PRange_split_in_half(PRangeOver(ra))),
        Returned(PSlice_split_in_half(PSliceOver(ra))))

Ptr_first ==
    Fresh /\ res' = Both("first",
        Returned(PRange_first(PRangeOver(ra))),
        Returned(PSlice_first(PSliceOver(ra))))

Ptr_upper_middle ==
    Fresh /\ res' = Both("upper_middle",
        IF tsize = 0 THEN Panicked
        ELSE Returned(PRange_upper_middle(PRangeOver(ra))),
        Returned(PSlice_upper_middle(PSliceOver(ra))))

Ptr_past_the_end ==
    Fresh /\ res' = Both("past_the_end",
        Returned(PRange_past_the_end(PRangeOver(ra))),
        Returned(PSlice_past_the_end(PSliceOver(ra))))

Ptr_last ==
    Fresh /\ ra.proof = NonEmpty /\ res' = Both("last",
        Returned(PRange_last(PRangeOver(ra))),
        Returned(PSlice_last(PSliceOver(ra))))

Ptr_tail ==
    Fresh /\ ra.proof = NonEmpty /\ res' = Both("tail",
        Returned(PRange_tail(PRangeOver(ra))),
        Returned(PSlice_tail(PSliceOver(ra))))

Ptr_init ==
    Fresh /\ ra.proof = NonEmpty /\ res' = Both("init",
        Returned(PRange_init(PRangeOver(ra))),
        Returned(PSlice_init(PSliceOver(ra))))

Ptr_advance ==
    Fresh /\ ra.proof = NonEmpty /\ res' = Both("advance",
        Returned(PRange_advance(PRangeOver(ra))),
        Returned(PSlice_advance(PSliceOver(ra))))

Ptr_advance_back ==
    Fresh /\ ra.proof = NonEmpty /\ res' = Both("advance_back",
        Returned(PRange_advance_back(PRangeOver(ra))),
        Returned(PSlice_advance_back(PSliceOver(ra))))

\* PRange -> PSlice -> PRange, and PSlice -> PRange -> PSlice
Ptr_from ==
    Fresh /\ res' = Both("from",
        IF tsize = 0 THEN Panicked
        ELSE Returned(PRange_from(PSlice_from(PRangeOver(ra)))),
        IF tsize = 0 THEN Panicked
        ELSE Returned(PSlice_from(PRange_from(PSliceOver(ra)))))

NextPointers ==
    \/ Ptr_len \/ Ptr_is_empty \/ Ptr_nonempty \/ Ptr_split_in_half
    \/ Ptr_first \/ Ptr_upper_middle \/ Ptr_past_the_end \/ Ptr_last
    \/ Ptr_tail \/ Ptr_init \/ Ptr_advance \/ Ptr_advance_back \/ Ptr_from

SpecPointers == InitPointers /\ [][NextPointers]_vars

\* a slice in sorted order
IsAscending(a) == \A j \in 1 .. Len(a) - 1 : a[j] <= a[j + 1]

\* ------------------------------------------ lower_bound (algorithms.rs)
\*
\* lower_bound opens a scope on the slice and halves a range of it; the
\* model takes one turn of its loop at a time and keeps, for every element
\* it read, the range it held and the offset it read at.

\* ptrdistance of algorithms.rs: the number of steps from `from` to `to`
algorithms_ptrdistance(from, to) == (to - from) \div tsize

\* *it, for a pointer into the slice a that starts at BufAddr(0)
Deref(a, it) == a[algorithms_ptrdistance(BufAddr(0), it) + 1]

RECURSIVE lower_bound_raw_ptr_loop(_, _, _, _)
lower_bound_raw_ptr_loop(a, elt, start, count) ==
    IF count > 0
    THEN LET step == count \div 2
             it == ptr_offset(start, step)
         IN  IF Deref(a, it) < elt
             THEN lower_bound_raw_ptr_loop(a, elt, ptr_offset(it, 1), count - (step + 1))
             ELSE lower_bound_raw_ptr_loop(a, elt, start, step)
    ELSE start

\* lower_bound_raw_ptr: what it returns, or the panic of its first ptrdistance
lower_bound_raw_ptr(a, elt) ==
    IF tsize = 0 THEN Panicked
    ELSE LET start == BufAddr(0)
             end == ptr_offset(start, Len(a))
             count == algorithms_ptrdistance(start, end)
         IN  Returned(algorithms_ptrdistance(start,
                 lower_bound_raw_ptr_loop(a, elt, start, count)))

\* One turn of the loop of lower_bound with the range r in hand: the range
\* it goes on with and the index it read at, or that the loop is over.
lower_bound_turn(a, elt, r) ==
    LET range_ == nonempty(r)
    IN  IF range_.ok
        THEN LET ab == split_in_half(range_.val)
                 at == first(ab[2])
             IN  [over |-> FALSE, at |-> at,
                  range |-> IF a[at.index + 1] < elt
                            THEN tail(ab[2]) ELSE ab[1]]
        ELSE [over |-> TRUE]

\* The slices searched: every ascending one up to MaxSortedLen, every one
\* up to MaxLen, and, of a zero-sized element type, the slices of units.
RECURSIVE Ascending(_)
Ascending(k) ==
    IF k = 0 THEN {<<>>}
    ELSE {Append(a, e) : a \in Ascending(k - 1), e \in 0 .. MaxElem} \cap
         {a \in [1 .. k -> 0 .. MaxElem] : \A j \in 1 .. k - 1 : a[j] <= a[j + 1]}

Slices ==
    UNION {Ascending(k) : k \in 0 .. MaxSortedLen}
        \cup UNION {[1 .. k -> 0 .. MaxElem] : k \in 0 .. MaxLen}

InitLowerBound ==
    /\ tsize \in {0, ElemSize}
    /\ arr \in IF tsize = 0 THEN ZeroArrays ELSE Slices
    /\ ra = range(Len(arr))
    /\ rb = ra
    /\ ix = Index_new(0, Unknown)
    /\ mode = PointerMode
    /\ calls = 0
    /\ fault = "none"
    /\ res = NoCall
    /\ handles = <<>>
    /\ pr = NoPointer

\* lower_bound(v, elt) is called: the scope opens with range = v.range()
LB_call ==
    /\ Fresh
    /\ \E elt \in IF tsize = 0 THEN {0} ELSE 0 .. MaxElem + 1 :
        res' = [op |-> "lower_bound", elt |-> elt, range |-> range(N),
                reads |-> <<>>, over |-> FALSE, out |-> 0]

\* one turn of `while let Ok(range_) = range.nonempty()`
LB_turn ==
    /\ res.op = "lower_bound" /\ ~res.over
    /\ LET turn == lower_bound_turn(arr, res.elt, res.range)
       IN  res' = IF turn.over
                  THEN [res EXCEPT !.over = TRUE, !.out = res.range.start]
                  ELSE [res EXCEPT !.range = turn.range,
                                   !.reads = Append(@, <<res.range, turn.at>>)]
    /\ UNCHANGED scopeVars /\ UNCHANGED handleVars

NextLowerBound == LB_call \/ LB_turn

SpecLowerBound == InitLowerBound /\ [][NextLowerBound]_vars

\* ---------------------------------------- binary_search (algorithms.rs)

\* Ordering, as x.cmp(elt) returns it
cmp(x, elt) == IF x < elt THEN "Less" ELSE IF x > elt THEN "Greater" ELSE "Equal"

\* Err(p) of Result<usize, usize>
ErrAt(p) == [ok |-> FALSE, val |-> p]

\* binary_search_by that goes on with the lower half whatever f answered
binary_search_turn_down(a, elt, r) ==
    LET ab == split_in_half(r)
        b_ == nonempty(ab[2])
    IN  IF b_.ok
        THEN [over |-> FALSE, at |-> first(b_.val), range |-> ab[1]]
        ELSE [over |-> TRUE, out |-> ErrAt(r.start)]

\* One turn of the loop of binary_search_by with the range r in hand and
\* f = |x| x.cmp(elt): the range it goes on with and the index it read at,
\* or what it returns.
binary_search_turn(a, elt, r) ==
    LET ab == split_in_half(r)
        b_ == nonempty(ab[2])
    IN  IF b_.ok
        THEN LET mid == first(b_.val)
                 ord == cmp(a[mid.index + 1], elt)
             IN  IF ord = "Equal"
                 THEN [over |-> TRUE, at |-> mid, out |-> Ok(mid.index)]
                 ELSE [over |-> FALSE, at |-> mid,
                       range |-> IF ord = "Greater" THEN ab[1] ELSE tail(b_.val)]
        ELSE [over |-> TRUE, out |-> ErrAt(r.start)]

\* The ascending slice of the elements of a set
RECURSIVE SortedSeq(_)
SortedSeq(S) ==
    IF S = {} THEN <<>>
    ELSE LET m == CHOOSE x \in S : \A y \in S : x <= y
         IN  <<m>> \o SortedSeq(S \ {m})

\* The slices searched: every ascending one of distinct elements of
\* 0..MaxKey, and the one of test_binary_search.
TestData == <<3, 7, 8, 11, 15, 22, 26>>
DistinctSlices == {SortedSeq(S) : S \in SUBSET (0 .. MaxKey)} \cup {TestData}

InitBinarySearch ==
    /\ arr \in DistinctSlices
    /\ ra = range(Len(arr))
    /\ rb = ra
    /\ ix = Index_new(0, Unknown)
    /\ mode = PointerMode
    /\ calls = 0
    /\ fault = "none"
    /\ res = NoCall
    /\ handles = <<>>
    /\ pr = NoPointer
    /\ tsize = ElemSize

\* binary_search(v, elt) is called: the scope opens with range = v.range()
BS_call ==
    /\ Fresh
    /\ \E elt \in IF arr = TestData THEN 1 .. 28 ELSE 0 .. MaxKey + 1 :
        res' = [op |-> "binary_search", elt |-> elt, range |-> range(N),
                reads |-> <<>>, over |-> FALSE, out |-> ErrAt(0)]

\* one turn of `loop`, the return included
BS_turn ==
    /\ res.op = "binary_search" /\ ~res.over
    /\ LET turn == binary_search_turn(arr, res.elt, res.range)
           seen == IF "at" \in DOMAIN turn
                   THEN Append(res.reads, <<res.range, turn.at>>)
                   ELSE res.reads
       IN  res' = IF turn.over
                  THEN [res EXCEPT !.over = TRUE, !.out = turn.out, !.reads = seen]
                  ELSE [res EXCEPT !.range = turn.range, !.reads = seen]
    /\ UNCHANGED scopeVars /\ UNCHANGED handleVars

NextBinarySearch == BS_call \/ BS_turn

SpecBinarySearch == InitBinarySearch /\ [][NextBinarySearch]_vars

\* -------------------------------------- quicksort_range (algorithms.rs)

\* v[i] of a slice held as a sequence
At(a, index) == a[index.index + 1]

\* insertion_sort_ranges(v, |x, y| x < y): one turn of `while i.advance()`,
\* <<whether there was one, the slice afterwards, i afterwards>>
insertion_sort_turn(a, i) ==
    LET adv == advance(i)
        at == first(adv[2])
        less_than == {j_elt \in {a[k] : k \in 1 .. Len(a)} : At(a, at) < j_elt}
        jtail == scan_from_rev(a, at, less_than)
    IN  IF adv[1] THEN <<TRUE, rotate1_up(a, jtail), adv[2]>> ELSE <<FALSE, a, i>>

\* the pivot quicksort_range picks among first, upper_middle and last
qs_pivot(a, r) ==
    LET l == first(r)
        m == upper_middle(r)
        rr == last(r)
    IN  IF At(a, l) <= At(a, m) /\ At(a, m) <= At(a, rr) THEN m
        ELSE IF At(a, m) <= At(a, l) /\ At(a, l) <= At(a, rr) THEN l
        ELSE rr

\* the inner loop that swaps nothing down
qs_back_noswap(a, scan, pivot) ==
    IF At(a, last(scan)) <= At(a, pivot)
    THEN [a |-> a, scan |-> scan, pc |-> "advance"]
    ELSE LET adv == advance_back(scan)
         IN  [a |-> a, scan |-> adv[2], pc |-> IF adv[1] THEN "back" ELSE "split"]

\* One turn of the inner `loop` of the partition: the slice and the scan
\* range it leaves, and where it goes on: around again ("back"), after its
\* break ("advance"), or after `break 'main` ("split").
qs_back(a, scan, pivot) ==
    IF At(a, last(scan)) <= At(a, pivot)
    THEN [a |-> swap(a, first(scan), last(scan)), scan |-> scan, pc |-> "advance"]
    ELSE LET adv == advance_back(scan)
         IN  [a |-> a, scan |-> adv[2], pc |-> IF adv[1] THEN "back" ELSE "split"]

\* The slices sorted: the short ones, the one of test_quicksort's kind, and
\* longer than the threshold the ascending, the descending, their rotations
\* and the residues (i * m) % q.
QsLens == (QS_INSERTION_SORT_THRESH + 1) .. (QS_INSERTION_SORT_THRESH + MaxOver)
QsSlices ==
    UNION {[1 .. k -> 0 .. 2] : k \in 0 .. MaxLen}
    \cup {<<4, 3, 2, 1, 0>>}
    \cup {[i \in 1 .. n |-> ((i - 1) * m) % q] :
            n \in QsLens, m \in 0 .. MaxMul, q \in 1 .. MaxMod}
    \cup {[i \in 1 .. n |-> (i - 1 + k) % n] :
            n \in QsLens, k \in 0 .. QS_INSERTION_SORT_THRESH + MaxOver}
    \cup {[i \in 1 .. n |-> (n - i + k) % n] :
            n \in QsLens, k \in 0 .. QS_INSERTION_SORT_THRESH + MaxOver}

InitQuicksort ==
    /\ arr \in QsSlices
    /\ ra = range(Len(arr))
    /\ rb = ra
    /\ ix = Index_new(0, Unknown)
    /\ mode = PointerMode
    /\ calls = 0
    /\ fault = "none"
    /\ res = NoCall
    /\ handles = <<>>
    /\ pr = NoPointer
    /\ tsize = ElemSize

\* The slice v of the call on top of the stack, and the whole slice once
\* that call has made its v into a.
QsTop == Head(res.stack)
QsSub == [k \in 1 .. (QsTop.hi - QsTop.lo) |-> arr[QsTop.lo + k]]
QsPut(a) ==
    [k \in 1 .. N |->
        IF QsTop.lo < k /\ k <= QsTop.hi THEN a[k - QsTop.lo] ELSE arr[k]]
QsKeep ==
    /\ UNCHANGED <<mode, tsize, ra, rb, ix, calls, fault>>
    /\ UNCHANGED handleVars

\* quicksort_range(v) is called
QS_call ==
    /\ Fresh
    /\ res' = [op |-> "quicksort_range", input |-> arr, pc |-> "enter", turns |-> 0,
               parts |-> <<>>, stack |-> <<[lo |-> 0, hi |-> N]>>,
               scan |-> range(0), pivot |-> Index_new(0, Unknown)]

\* The call on top of the stack begins: it returns at once on an empty slice,
\* turns to insertion sort on a short one, and otherwise picks its pivot and
\* swaps it to the front.
QS_enter ==
    /\ res.op = "quicksort_range" /\ res.pc = "enter" /\ res.stack # <<>>
    /\ LET r == nonempty(range(Len(QsSub)))
       IN  IF ~r.ok
           THEN /\ res' = [res EXCEPT !.turns = @ + 1, !.stack = Tail(@)]
                /\ arr' = arr
           ELSE IF len(r.val) <= QS_INSERTION_SORT_THRESH
           THEN /\ res' = [res EXCEPT !.turns = @ + 1, !.pc = "insertion", !.scan = r.val]
                /\ arr' = arr
           ELSE /\ res' = [res EXCEPT !.turns = @ + 1, !.pc = "main", !.scan = r.val,
                                      !.pivot = first(r.val)]
                /\ arr' = QsPut(swap(QsSub, first(r.val), qs_pivot(QsSub, r.val)))
    /\ QsKeep

\* one turn of `while i.advance()` of insertion_sort_ranges, or its end
QS_insertion ==
    /\ res.op = "quicksort_range" /\ res.pc = "insertion"
    /\ LET turn == insertion_sort_turn(QsSub, res.scan)
       IN  IF turn[1]
           THEN /\ arr' = QsPut(turn[2])
                /\ res' = [res EXCEPT !.turns = @ + 1, !.scan = turn[3]]
           ELSE /\ arr' = arr
                /\ res' = [res EXCEPT !.turns = @ + 1, !.pc = "enter", !.stack = Tail(@)]
    /\ QsKeep

\* the head of a turn of 'main: `if v[scan.first()] >= v[pivot]`
QS_main ==
    /\ res.op = "quicksort_range" /\ res.pc = "main"
    /\ res' = [res EXCEPT !.turns = @ + 1, !.pc = IF At(QsSub, first(res.scan)) >= At(QsSub, res.pivot)
                                 THEN "back" ELSE "advance"]
    /\ arr' = arr
    /\ QsKeep

\* one turn of the inner loop
QS_back ==
    /\ res.op = "quicksort_range" /\ res.pc = "back"
    /\ LET turn == qs_back(QsSub, res.scan, res.pivot)
       IN  /\ arr' = QsPut(turn.a)
           /\ res' = [res EXCEPT !.turns = @ + 1, !.scan = turn.scan, !.pc = turn.pc]
    /\ QsKeep

\* the foot of a turn of 'main: `if !scan.advance() { break; }`
QS_advance ==
    /\ res.op = "quicksort_range" /\ res.pc = "advance"
    /\ LET adv == advance(res.scan)
       IN  res' = [res EXCEPT !.turns = @ + 1, !.scan = adv[2],
                              !.pc = IF adv[1] THEN "main" ELSE "split"]
    /\ arr' = arr
    /\ QsKeep

\* v.split_at(scan.first()) and the calls on &mut v[a] and &mut v[b], which
\* take this call's place on the stack, a on top
QS_split ==
    /\ res.op = "quicksort_range" /\ res.pc = "split"
    /\ LET ab == Container_split_at(Len(QsSub), first(res.scan))
           a == [lo |-> QsTop.lo + ab[1].start, hi |-> QsTop.lo + ab[1].end]
           b == [lo |-> QsTop.lo + ab[2].start, hi |-> QsTop.lo + ab[2].end]
       IN  res' = [res EXCEPT !.turns = @ + 1, !.pc = "enter",
                              !.parts = Append(@, <<QsTop, a, b>>),
                              !.stack = <<a, b>> \o Tail(@)]
    /\ arr' = arr
    /\ QsKeep

NextQuicksort ==
    QS_call \/ QS_enter \/ QS_insertion \/ QS_main \/ QS_back \/ QS_advance \/ QS_split

SpecQuicksort == InitQuicksort /\ [][NextQuicksort]_vars

\* ---------------------------------------------- heapify (algorithms.rs)

\* the sift down that never looks at the right child
heapify_turn_left(a, pos) ==
    LET c == vet(Len(a), pos.index * 2 + 1)
    IN  IF ~c.ok THEN [go |-> FALSE, a |-> a, pos |-> pos, used |-> <<>>]
        ELSE IF At(a, pos) <= At(a, c.val)
        THEN [go |-> FALSE, a |-> a, pos |-> pos, used |-> <<c.val>>]
        ELSE [go |-> TRUE, a |-> swap(a, pos, c.val), pos |-> c.val, used |-> <<c.val>>]

\* One turn of `while let Ok(mut child) = v.vet(pos.integer() * 2 + 1)`:
\* whether the loop goes on, the slice and pos afterwards, and the indices
\* child and right it read at.
heapify_turn(a, pos) ==
    LET c == vet(Len(a), pos.index * 2 + 1)
    IN  IF ~c.ok THEN [go |-> FALSE, a |-> a, pos |-> pos, used |-> <<>>]
        ELSE LET fw == forward(Len(a), c.val)
                 right == fw[2]
                 child == IF fw[1] /\ At(a, c.val) > At(a, right) THEN right ELSE c.val
             IN  IF At(a, pos) <= At(a, child)
                 THEN [go |-> FALSE, a |-> a, pos |-> pos, used |-> <<c.val, right>>]
                 ELSE [go |-> TRUE, a |-> swap(a, pos, child), pos |-> child,
                       used |-> <<c.val, right>>]

\* The slices made heaps: every one of elements 0..2 up to MaxHeapLen, and
\* the one of test_heapify.
HeapData == <<8, 12, 9, 7, 22, 3, 26, 14, 11, 15, 22>>
HeapSlices == UNION {[1 .. k -> 0 .. 2] : k \in 0 .. MaxHeapLen} \cup {HeapData}

InitHeapify ==
    /\ arr \in HeapSlices
    /\ ra = range(Len(arr))
    /\ rb = ra
    /\ ix = Index_new(0, Unknown)
    /\ mode = PointerMode
    /\ calls = 0
    /\ fault = "none"
    /\ res = NoCall
    /\ handles = <<>>
    /\ pr = NoPointer
    /\ tsize = ElemSize

\* heapify(v) is called: left is the lower half of v.range()
HP_call ==
    /\ Fresh
    /\ res' = [op |-> "heapify", input |-> arr, pc |-> "for", turns |-> 0,
               it |-> into_iter(split_in_half(range(N))[1]),
               pos |-> Index_new(0, Unknown), used |-> <<>>]

\* `for i in left.into_iter().rev()`: the next i, or the end of heapify
HP_for ==
    /\ res.op = "heapify" /\ res.pc = "for"
    /\ LET nb == RangeIter_next_back(res.it)
       IN  res' = IF nb[1].some
                  THEN [res EXCEPT !.turns = @ + 1, !.it = nb[2],
                                   !.pos = nb[1].val, !.pc = "while"]
                  ELSE [res EXCEPT !.turns = @ + 1, !.pc = "done"]
    /\ UNCHANGED scopeVars /\ UNCHANGED handleVars

\* one turn of the sift down of the element at pos; pos * 2 + 1 leaving
\* usize is a panic in a debug build
HP_while ==
    /\ res.op = "heapify" /\ res.pc = "while"
    /\ IF res.pos.index * 2 + 1 > UsizeMax
       THEN /\ fault' = "overflow"
            /\ res' = [res EXCEPT !.turns = @ + 1, !.pc = "done"]
            /\ arr' = arr
       ELSE LET turn == heapify_turn(arr, res.pos)
            IN  /\ arr' = turn.a
                /\ res' = [res EXCEPT !.turns = @ + 1, !.pos = turn.pos,
                                      !.used = @ \o turn.used,
                                      !.pc = IF turn.go THEN "while" ELSE "for"]
                /\ fault' = fault
    /\ UNCHANGED <<mode, tsize, ra, rb, ix, calls>>
    /\ UNCHANGED handleVars

NextHeapify == HP_call \/ HP_for \/ HP_while

SpecHeapify == InitHeapify /\ [][NextHeapify]_vars

\* --------------------------------------- merge_internal (algorithms.rs)

\* a with the elements from offset start on replaced by those of sub
Splice(a, start, sub) ==
    [k \in 1 .. Len(a) |->
        IF start < k /\ k <= start + Len(sub) THEN sub[k - start] ELSE a[k]]

\* block_swap2(a, b): <<a, b>> with their first min(a.len(), b.len())
\* elements swapped
block_swap2(a, b) ==
    LET count == min(Len(a), Len(b))
    IN  <<[k \in 1 .. Len(a) |-> IF k <= count THEN b[k] ELSE a[k]],
          [k \in 1 .. Len(b) |-> IF k <= count THEN a[k] ELSE b[k]]>>

\* mem::swap(&mut buffer[i], &mut data[out]): <<data, buffer>> afterwards
swap_across(data, buffer, i, out) ==
    <<ptr_write(data, out.index, ptr_read(buffer, i.index)),
      ptr_write(buffer, i.index, ptr_read(data, out.index))>>

\* the loop of merge_internal_indices that leaves out the block swap of the
\* remainder
merge_indices_turn_no_remainder(data, buffer, i, out, j) ==
    IF At(buffer, i) <= At(data, j)
    THEN LET db == swap_across(data, buffer, i, out)
             fi == forward(Len(buffer), i)
         IN  [data |-> db[1], buffer |-> db[2], i |-> fi[2],
              out |-> forward(Len(data), out)[2], j |-> j, go |-> fi[1]]
    ELSE LET fj == forward(Len(data), j)
         IN  [data |-> swap(data, j, out), buffer |-> buffer, i |-> i,
              out |-> forward(Len(data), out)[2], j |-> fj[2], go |-> fj[1]]

\* One turn of the loop of merge_internal_indices: data, buffer and the
\* three indices afterwards, and whether the loop goes on.
merge_indices_turn(data, buffer, i, out, j) ==
    IF At(buffer, i) <= At(data, j)
    THEN LET db == swap_across(data, buffer, i, out)
             fi == forward(Len(buffer), i)
         IN  [data |-> db[1], buffer |-> db[2], i |-> fi[2],
              out |-> forward(Len(data), out)[2], j |-> j, go |-> fi[1]]
    ELSE LET swapped == swap(data, j, out)
             out2 == forward(Len(data), out)[2]
             fj == forward(Len(data), j)
             from_i == range_of_from(Len(buffer), i)
             from_out == range_of_from(Len(data), out2)
             rest == block_swap2(Slice(buffer, from_i), Slice(swapped, from_out))
         IN  IF fj[1]
             THEN [data |-> swapped, buffer |-> buffer, i |-> i,
                   out |-> out2, j |-> fj[2], go |-> TRUE]
             ELSE [data |-> Splice(swapped, from_out.start, rest[2]),
                   buffer |-> Splice(buffer, from_i.start, rest[1]),
                   i |-> i, out |-> out2, j |-> fj[2], go |-> FALSE]

\* One turn of the loop of merge_internal_ranges, i, out and j being ranges.
merge_ranges_turn(data, buffer, i, out, j) ==
    IF At(buffer, first(i)) <= At(data, first(j))
    THEN LET db == swap_across(data, buffer, first(i), first(out))
             ao == advance(out)
             ai == advance(i)
         IN  [data |-> db[1], buffer |-> db[2], out |-> ao[2], j |-> j,
              i |-> IF ao[1] THEN ai[2] ELSE i, go |-> ao[1] /\ ai[1]]
    ELSE LET swapped == swap(data, first(j), first(out))
             ao == advance(out)
             aj == advance(j)
             rest == block_swap2(Slice(buffer, i), Slice(swapped, ao[2]))
         IN  IF ~ao[1]
             THEN [data |-> swapped, buffer |-> buffer, i |-> i,
                   out |-> out, j |-> j, go |-> FALSE]
             ELSE IF aj[1]
             THEN [data |-> swapped, buffer |-> buffer, i |-> i,
                   out |-> ao[2], j |-> aj[2], go |-> TRUE]
             ELSE [data |-> Splice(swapped, ao[2].start, rest[2]),
                   buffer |-> Splice(buffer, i.start, rest[1]),
                   i |-> i, out |-> ao[2], j |-> aj[2], go |-> FALSE]

\* The data merged: up to MaxMergeLen elements of 0..MaxMergeElem.
MergeData == UNION {[1 .. k -> 0 .. MaxMergeElem] : k \in 0 .. MaxMergeLen}
\* A buffer of distinct elements that are none of data's.
MergeBuffer(length) == [k \in 1 .. length |-> MaxMergeElem + k]

InitMerge ==
    /\ arr \in MergeData
    /\ ra = range(Len(arr))
    /\ rb = ra
    /\ ix = Index_new(0, Unknown)
    /\ mode = PointerMode
    /\ calls = 0
    /\ fault = "none"
    /\ res = NoCall
    /\ handles = <<>>
    /\ pr = NoPointer
    /\ tsize = ElemSize

MergeKeep ==
    /\ UNCHANGED <<mode, tsize, ra, rb, ix, calls>>
    /\ UNCHANGED handleVars

\* merge_internal_indices or merge_internal_ranges is called, on data whose
\* two sections are sorted if left_end lies in it: debug_assert! panics on
\* empty data in a debug build, and a left_end past data or buffer is the
\* error.
MG_call ==
    /\ res = NoCall
    /\ \E op \in {"merge_internal_indices", "merge_internal_ranges"},
          left_end \in 0 .. N + 1, debug \in BOOLEAN :
        \E length \in {l \in {left_end - 1, left_end, left_end + 1} : l >= 0} :
            /\ left_end <= N =>
                  /\ IsAscending(SubSeq(arr, 1, left_end))
                  /\ IsAscending(SubSeq(arr, left_end + 1, N))
            /\ res' = [op |-> op, input |-> arr, left_end |-> left_end,
                       buffer |-> MergeBuffer(length), was |-> MergeBuffer(length),
                       turns |-> 0,
                       i |-> range(0), out |-> range(0), j |-> range(0),
                       pc |-> IF debug /\ N = 0 THEN "panic"
                              ELSE IF left_end > N \/ left_end > length THEN "Err"
                              ELSE "scope"]
            /\ fault' = IF debug /\ N = 0 THEN "panic" ELSE fault
    /\ arr' = arr
    /\ MergeKeep

\* The two scopes open, on data and on buffer[..left_end]: the early returns,
\* the first block swap and the three particles, up to the loop.
MG_scope ==
    /\ res.op \in {"merge_internal_indices", "merge_internal_ranges"}
    /\ res.pc = "scope"
    /\ LET r == range(N)
           buf == SubSeq(res.buffer, 1, res.left_end)
           rbuf == range(Len(buf))
           swapped == block_swap2(Slice(arr, r), Slice(buf, rbuf))
       IN  IF res.op = "merge_internal_indices"
           THEN LET i == contains(rbuf, 0)
                    out == contains(r, 0)
                    j == contains(r, res.left_end)
                IN  IF N - res.left_end = 0
                    THEN /\ res' = [res EXCEPT !.turns = @ + 1, !.pc = "Ok"]
                         /\ arr' = arr
                    ELSE /\ arr' = Splice(arr, 0, swapped[1])
                         /\ res' = IF i.some /\ out.some /\ j.some
                                   THEN [res EXCEPT !.turns = @ + 1, !.pc = "loop",
                                             !.buffer = Splice(@, 0, swapped[2]),
                                             !.i = i.val, !.out = out.val, !.j = j.val]
                                   ELSE [res EXCEPT !.turns = @ + 1, !.pc = "Ok",
                                             !.buffer = Splice(@, 0, swapped[2])]
           ELSE LET i == nonempty(rbuf)
                    out == nonempty(r)
                    j == nonempty(Range_split_at(r, res.left_end)[2])
                IN  IF i.ok /\ out.ok /\ j.ok
                    THEN /\ arr' = Splice(arr, 0, swapped[1])
                         /\ res' = [res EXCEPT !.turns = @ + 1, !.pc = "loop",
                                       !.buffer = Splice(@, 0, swapped[2]),
                                       !.i = i.val, !.out = out.val, !.j = j.val]
                    ELSE /\ res' = [res EXCEPT !.turns = @ + 1, !.pc = "Ok"]
                         /\ arr' = arr
    /\ fault' = fault
    /\ MergeKeep

\* one turn of the loop
MG_loop ==
    /\ res.op \in {"merge_internal_indices", "merge_internal_ranges"}
    /\ res.pc = "loop"
    /\ LET buf == SubSeq(res.buffer, 1, res.left_end)
           turn == IF res.op = "merge_internal_indices"
                   THEN merge_indices_turn(arr, buf, res.i, res.out, res.j)
                   ELSE merge_ranges_turn(arr, buf, res.i, res.out, res.j)
       IN  /\ arr' = turn.data
           /\ res' = [res EXCEPT !.turns = @ + 1,
                                 !.buffer = Splice(@, 0, turn.buffer),
                                 !.i = turn.i, !.out = turn.out, !.j = turn.j,
                                 !.pc = IF turn.go THEN "loop" ELSE "Ok"]
    /\ fault' = fault
    /\ MergeKeep

NextMerge == MG_call \/ MG_scope \/ MG_loop

SpecMerge == InitMerge /\ [][NextMerge]_vars

\* ------------------------------------------------ scan_tail_ (pointer.rs)

\* The loop of scan_tail_ from the pointer end down: where it stops, and the
\* addresses of the elements it applied f to on the way.
RECURSIVE scan_tail_loop(_, _, _, _, _)
scan_tail_loop(a, container_start, end, f, applied) ==
    IF container_start = end THEN [end |-> end, applied |-> applied]
    ELSE LET at == ptr_offset(end, -1)
         IN  IF Deref(a, at) \notin f
             THEN [end |-> end, applied |-> Append(applied, at)]
             ELSE scan_tail_loop(a, container_start, at, f, Append(applied, at))

\* Container::scan_tail_ on the container of the elements a: the range it
\* returns and the addresses it applied f at.
scan_tail_(a, index, f) ==
    LET container_start == BufAddr(0)
        loop == scan_tail_loop(a, container_start, index.idx, f, <<>>)
    IN  [range |-> PRange_new(loop.end, ptr_offset(index.idx, 1), index.proof),
         applied |-> loop.applied]

\* A scope on a slice of elements calls scan_tail_ once, with a pointer
\* index that a pointer range of the container gave it.
InitScanTail ==
    /\ arr \in Arrays
    /\ ra \in Ranges(Len(arr))
    /\ rb = ra
    /\ ix = Index_new(0, Unknown)
    /\ mode = PointerMode
    /\ calls = 0
    /\ fault = "none"
    /\ res = NoCall
    /\ handles = <<>>
    /\ pr = NoPointer
    /\ tsize = ElemSize

\* the pointer indices of the pointer range over r
PIndicesOf(r) ==
    {PRange_first(PRangeOver(r)), PRange_upper_middle(PRangeOver(r)),
     PRange_past_the_end(PRangeOver(r))}
        \cup IF r.proof = NonEmpty THEN {PRange_last(PRangeOver(r))} ELSE {}

ST_scan_tail ==
    /\ Fresh
    /\ \E index \in PIndicesOf(ra), f \in Closures :
        res' = [op |-> "scan_tail_", index |-> index, f |-> f,
                out |-> scan_tail_(arr, index, f)]

\* &v[r] of the range scan_tail_ returned: Index<PRange> for Container
ST_index ==
    /\ res.op = "scan_tail_"
    /\ res' = [res EXCEPT !.op = "v[scan_tail_]"]
    /\ fault' = IF /\ BufAddr(0) <= res.out.range.start
                   /\ res.out.range.start <= res.out.range.end
                   /\ res.out.range.end <= ptr_offset(BufAddr(0), N)
                THEN fault ELSE "oob"
    /\ UNCHANGED <<arr, mode, tsize, ra, rb, ix, calls>>
    /\ UNCHANGED handleVars

NextScanTail == ST_scan_tail \/ ST_index

SpecScanTail == InitScanTail /\ [][NextScanTail]_vars

\* ---------------------------------- scan_from, scan_from_rev (container.rs)

\* the slice of test_scan
ScanData == <<0, 0, 0, 1, 2>>
\* closures over its elements: is zero, is not zero
ScanClosures == Closures \cup {{1, 2}}

\* A scope on a slice of elements scans from an index of its range; an index
\* is the first, the last or the middle of a range the scope holds.
InitScan ==
    /\ arr \in Arrays \cup {ScanData}
    /\ ra = range(Len(arr))
    /\ rb = ra
    /\ ix \in {i \in Indices(Len(arr)) : i.proof = NonEmpty}
    /\ mode = PointerMode
    /\ calls = 0
    /\ fault = "none"
    /\ res = NoCall
    /\ handles = <<>>
    /\ pr = NoPointer
    /\ tsize = ElemSize

\* what a scan gave: the range, and the offsets f was applied at
Scanned(op, f, out, applied) ==
    [op |-> op, index |-> ix, f |-> f, out |-> out, applied |-> applied]

SC_scan_from ==
    /\ Fresh
    /\ \E f \in ScanClosures :
        res' = Scanned("scan_from", f, scan_from(arr, ix, f),
                       LET n == Applications(Slice(arr, after(N, ix)), f)
                       IN  {ix.index + j : j \in 1 .. n})

SC_scan_from_rev ==
    /\ Fresh
    /\ \E f \in ScanClosures :
        res' = Scanned("scan_from_rev", f, scan_from_rev(arr, ix, f),
                       LET n == Applications(Reverse(Slice(arr, before(N, ix))), f)
                       IN  {ix.index - j : j \in 1 .. n})

\* the next scan starts from the last index of the range this one gave
SC_last ==
    /\ res.op \in {"scan_from", "scan_from_rev"}
    /\ ix' = last(res.out)
    /\ ra' = res.out
    /\ res' = NoCall
    /\ UNCHANGED <<arr, mode, tsize, rb, calls, fault>>
    /\ UNCHANGED handleVars

NextScan == SC_scan_from \/ SC_scan_from_rev \/ SC_last

SpecScan == InitScan /\ [][NextScan]_vars

\* --------------------------------------------- push (container.rs, Vec)

\* elements test_vec holds and pushes
PushElems == 0 .. 2

\* scope(&mut vec, f): f turns the container index-only and pushes.
InitPush ==
    /\ arr \in Arrays
    /\ ra = range(Len(arr))
    /\ rb = ra
    /\ ix = Index_new(0, Unknown)
    /\ mode = PointerMode
    /\ calls = 0
    /\ fault = "none"
    /\ res = NoCall
    /\ handles = <<>>
    /\ pr = NoPointer
    /\ tsize = ElemSize

PU_only_index ==
    /\ mode = PointerMode
    /\ mode' = only_index(mode)
    /\ UNCHANGED <<arr, tsize, ra, rb, ix, calls, fault, res>>
    /\ UNCHANGED handleVars

PU_push ==
    /\ mode = OnlyIndex
    /\ Len(arr) < MaxLen + MaxGrow
    /\ \E element \in PushElems :
        /\ arr' = push(arr, element)[1]
        /\ ix' = push(arr, element)[2]
        /\ res' = [op |-> "push", element |-> element, before |-> arr,
                   out |-> push(arr, element)[2]]
    /\ UNCHANGED <<mode, tsize, ra, rb, calls, fault>>
    /\ UNCHANGED handleVars

\* v[end] of the index the push returned
PU_index ==
    /\ res.op = "push"
    /\ IF IndexInBounds(N, res.out)
       THEN res' = [res EXCEPT !.op = "v[push]"] @@ [read |-> At(arr, res.out)]
            /\ UNCHANGED fault
       ELSE res' = [res EXCEPT !.op = "v[push]"] @@ [read |-> 0]
            /\ fault' = "oob"
    /\ UNCHANGED <<arr, mode, tsize, ra, rb, ix, calls>>
    /\ UNCHANGED handleVars

NextPush == PU_only_index \/ PU_push \/ PU_index

SpecPush == InitPush /\ [][NextPush]_vars

\* --------------------------- RangeIter (indexing.rs), PRangeIter (pointer.rs)

\* PRangeIter: <<the item, the iterator afterwards>>.
PRange_into_iter(r) == PRange_new(r.start, r.end, Unknown)
PRangeIter_next(it) ==
    IF it.start # it.end
    THEN <<Some(PIndex_new(it.start, NonEmpty)),
           [it EXCEPT !.start = ptr_offset(it.start, 1)]>>
    ELSE <<None, it>>
PRangeIter_next_back(it) ==
    IF it.start # it.end
    THEN <<Some(PIndex_new(ptr_offset(it.end, -1), NonEmpty)),
           [it EXCEPT !.end = ptr_offset(it.end, -1)]>>
    ELSE <<None, it>>

\* A scope turns a range of its container, or the pointer range over it,
\* into an iterator and calls next and next_back on it in any order.
InitRangeIter ==
    /\ arr \in ZeroArrays
    /\ tsize \in {0, ElemSize}
    /\ ra \in {r \in Ranges(Len(arr)) : tsize = 0 => r.proof = Unknown}
    /\ rb = ra
    /\ ix = Index_new(0, Unknown)
    /\ mode = PointerMode
    /\ calls = 0
    /\ fault = "none"
    /\ res = NoCall
    /\ handles = <<>>
    /\ pr = NoPointer

Iterating(op, r, it) ==
    [op |-> op, range |-> r, it |-> it, yielded |-> <<>>, nones |-> 0]

\* what a call of next or next_back leaves: the iterator stepped, and the
\* item noted or one more None counted
Yield(side, step) ==
    [res EXCEPT !.it = step[2],
                !.yielded = IF step[1].some
                            THEN Append(@, [side |-> side, item |-> step[1].val])
                            ELSE @,
                !.nones = IF step[1].some THEN @ ELSE @ + 1]

RI_into_iter == Fresh /\ res' = Iterating("RangeIter", ra, into_iter(ra))

RI_next ==
    /\ res.op = "RangeIter" /\ res.nones < MaxNones
    /\ res' = Yield("next", RangeIter_next(res.it))
    /\ UNCHANGED scopeVars /\ UNCHANGED handleVars

RI_next_back ==
    /\ res.op = "RangeIter" /\ res.nones < MaxNones
    /\ res' = Yield("next_back", RangeIter_next_back(res.it))
    /\ UNCHANGED scopeVars /\ UNCHANGED handleVars

PI_into_iter ==
    Fresh /\ res' = Iterating("PRangeIter", PRangeOver(ra),
                              PRange_into_iter(PRangeOver(ra)))

PI_next ==
    /\ res.op = "PRangeIter" /\ res.nones < MaxNones
    /\ res' = Yield("next", PRangeIter_next(res.it))
    /\ UNCHANGED scopeVars /\ UNCHANGED handleVars

PI_next_back ==
    /\ res.op = "PRangeIter" /\ res.nones < MaxNones
    /\ res' = Yield("next_back", PRangeIter_next_back(res.it))
    /\ UNCHANGED scopeVars /\ UNCHANGED handleVars

NextRangeIter ==
    \/ RI_into_iter \/ RI_next \/ RI_next_back
    \/ PI_into_iter \/ PI_next \/ PI_next_back

SpecRangeIter == InitRangeIter /\ [][NextRangeIter]_vars

\* ----------------------------------------------------------------- C1

\* C1: after any sequence of range-producing calls in a scope, every range
\* the closure holds satisfies 0 <= start <= end <= len, with start < end
\* when its proof is NonEmpty.
C1_RangeInvariant == RangeOK(ra, N) /\ RangeOK(rb, N)

\* ----------------------------------------------------------------- C2

InRange(i, r) == r.start <= i.index /\ i.index < r.end

\* C2: every index derived from a well-formed range r lies where its proof
\* promises: contains(k), iteration, and first, last, lower_middle and
\* upper_middle of a NonEmpty r give NonEmpty indices with
\* start <= index < end, hence below the container's length; first and
\* upper_middle of an Unknown r, past_the_end and Index::after give Unknown
\* indices that are at most the length.
C2_IndexDerivation ==
    /\ res.op = "contains" /\ res.out.some =>
          /\ res.out.val.proof = NonEmpty
          /\ InRange(res.out.val, ra) /\ IndexInBounds(N, res.out.val)
    /\ res.op = "into_iter" =>
          \A j \in 1 .. Len(res.out) :
              /\ res.out[j].proof = NonEmpty
              /\ InRange(res.out[j], ra) /\ IndexInBounds(N, res.out[j])
    /\ res.op \in {"first", "last", "lower_middle", "upper_middle"}
       /\ ra.proof = NonEmpty =>
          /\ res.out.proof = NonEmpty
          /\ InRange(res.out, ra) /\ IndexInBounds(N, res.out)
    /\ res.op \in {"first", "upper_middle"} /\ ra.proof = Unknown =>
          res.out.proof = Unknown /\ res.out.index <= N
    /\ res.op \in {"past_the_end", "after"} =>
          res.out.proof = Unknown /\ res.out.index <= N

\* last() of a NonEmpty range that ends at the end of the longest container
C2_Witness ==
    /\ res.op = "last" /\ ra.proof = NonEmpty
    /\ ra.end = MaxLen /\ res.out.index = MaxLen - 1

\* ----------------------------------------------------------------- C3

\* C3: through a handle in index-only mode, whatever pushes, inserts, vets
\* and particle derivations came before, every NonEmpty index the closure
\* holds is below the current length and every range it holds ends at or
\* before the current length.
C3_StillInBounds ==
    mode = OnlyIndex =>
        /\ ix.proof = NonEmpty => ix.index < N
        /\ ra.end <= N /\ rb.end <= N

\* ----------------------------------------------------------------- C4

\* C4: the handles of a scope that bear its brand never differ in their
\* sequence of elements, nor therefore in their length.
C4_HandlesAgree ==
    \A h, g \in DOMAIN handles : handles[h].arr = handles[g].arr

\* ----------------------------------------------------------------- C5

PointerOps ==
    {"pointer_range", "pointer_slice", "index_prange", "index_pindex",
     "swap_ptr", "rotate1_prange", "split_container_at_pointer"}
GrowOps == {"push", "insert"}

\* C5: a call that mints or redeems a pointer particle goes through a handle
\* in the pointer-capable mode, through which nothing has been pushed or
\* inserted; push and insert go through a handle in index-only mode; and a
\* handle in index-only mode stays in it.
C5_ModeExclusion ==
    /\ [](res.op \in PointerOps =>
            /\ handles[res.k].mode = PointerMode
            /\ handles[res.k].grown = 0)
    /\ [](res.op \in GrowOps => handles[res.k].mode = OnlyIndex)
    /\ [][\A h \in DOMAIN handles :
            handles[h].mode = OnlyIndex => handles'[h].mode = OnlyIndex]_vars

\* a pointer range is redeemed through one handle after an element has
\* been pushed through another
C5_Witness ==
    /\ res.op = "index_prange" /\ fault = "none"
    /\ \E g \in DOMAIN handles : g # res.k /\ handles[g].grown > 0

\* ----------------------------------------------------------------- C6

\* C6: vet(k) is Ok with the NonEmpty index k exactly when k < len, and
\* vet_range(k..m) is Ok with the Unknown range k..m exactly when k <= m and
\* m <= len; either is the error otherwise, and a failed vet changes
\* nothing.  On the full range, contains(k) gives the index vet(k) gives
\* for k < len, and None for k = len.
C6_Vet ==
    /\ [](res.op = "vet" =>
            /\ res.out.ok <=> res.k < N
            /\ res.out.ok => res.out.val = [index |-> res.k, proof |-> NonEmpty]
            /\ ~res.out.ok => res.out = Err)
    /\ [](res.op = "vet_range" =>
            /\ res.out.ok <=> (res.k <= res.m /\ res.m <= N)
            /\ res.out.ok =>
                 res.out.val = [start |-> res.k, end |-> res.m, proof |-> Unknown]
            /\ ~res.out.ok => res.out = Err)
    /\ [](res.op = "contains" /\ ra.start = 0 /\ ra.end = N =>
            /\ res.k < N => res.out.some /\ res.out.val = vet(N, res.k).val
            /\ res.k = N => ~res.out.some)
    /\ [][res'.op \in {"vet", "vet_range"} /\ ~res'.out.ok =>
            UNCHANGED <<arr, mode, tsize, ra, rb, ix, fault>>]_vars

\* vet of the last index of the longest container succeeds
C6_Witness ==
    res.op = "vet" /\ N = MaxLen /\ res.k = N - 1 /\ res.out.ok

\* ----------------------------------------------------------------- C7

\* C7: nonempty() of a Range, a PRange or a PSlice is Ok exactly when the
\* range has start < end, and then gives the same start and end (or length)
\* under the proof NonEmpty; it is the error when the range is empty;
\* no_proof() keeps start and end.
C7_Promotion ==
    /\ res.op = "nonempty" =>
          /\ res.out.ok <=> ra.start < ra.end
          /\ res.out.ok =>
               /\ res.out.val = [start |-> ra.start, end |-> ra.end, proof |-> NonEmpty]
               /\ res.out.val.start < res.out.val.end
          /\ ~res.out.ok => res.out = Err
    /\ res.op = "PRange::nonempty" =>
          /\ res.out.ok <=> PRangeOver(ra).start < PRangeOver(ra).end
          /\ res.out.ok =>
               /\ res.out.val.start = PRangeOver(ra).start
               /\ res.out.val.end = PRangeOver(ra).end
               /\ res.out.val.proof = NonEmpty
          /\ ~res.out.ok => res.out = Err
    /\ res.op = "PSlice::nonempty" =>
          /\ res.out.ok <=> ra.start < ra.end
          /\ res.out.ok =>
               /\ res.out.val.start = PSliceOver(ra).start
               /\ res.out.val.len = ra.end - ra.start
               /\ res.out.val.proof = NonEmpty
          /\ ~res.out.ok => res.out = Err
    /\ res.op = "no_proof" =>
          res.out = [start |-> ra.start, end |-> ra.end, proof |-> Unknown]

\* a range of unknown proof with one element at the end is promoted
C7_Witness ==
    /\ res.op = "nonempty" /\ ra.proof = Unknown
    /\ ra.start = MaxLen - 1 /\ ra.end = MaxLen /\ res.out.ok

\* ----------------------------------------------------------------- C8

\* C8: a.join(b) is Ok exactly when a.end = b.start, and then is the range
\* a.start..b.end, NonEmpty iff a or b is NonEmpty, with start < end when
\* it is NonEmpty; otherwise it is the error and carries no range.
C8_Join ==
    res.op = "join" =>
        /\ res.out.ok <=> ra.end = rb.start
        /\ res.out.ok =>
             /\ res.out.val.start = ra.start /\ res.out.val.end = rb.end
             /\ res.out.val.proof = NonEmpty
                  <=> (ra.proof = NonEmpty \/ rb.proof = NonEmpty)
             /\ res.out.val.proof \in Proofs
             /\ res.out.val.proof = NonEmpty => res.out.val.start < res.out.val.end
        /\ ~res.out.ok => res.out = Err

\* an empty range joined with a NonEmpty one that starts where it ends
C8_Witness ==
    /\ res.op = "join" /\ res.out.ok
    /\ ra.start = ra.end /\ ra.proof = Unknown /\ rb.proof = NonEmpty
    /\ res.out.val.proof = NonEmpty

\* ----------------------------------------------------------------- C9

C10_SplitInHalf ==
    res.op = "split_in_half" =>
        LET a == res.out[1]
            b == res.out[2]
            mid == ra.start + (ra.end - ra.start) \div 2
        IN  /\ a = [start |-> ra.start, end |-> mid, proof |-> Unknown]
            /\ b = [start |-> mid, end |-> ra.end, proof |-> ra.proof]
            /\ (a.end - a.start) + (b.end - b.start) = ra.end - ra.start
            /\ len(a) + len(b) = len(ra)
            /\ join(a, b).ok /\ Range_eq(join(a, b).val, ra)
            /\ ra.start < ra.end => b.start < b.end
            /\ ra.start = ra.end =>
                 a.start = a.end /\ b.start = b.end /\ a.start = b.start

\* a NonEmpty range of odd length: the second half is the longer one
C10_Witness ==
    /\ res.op = "split_in_half" /\ ra.proof = NonEmpty
    /\ (ra.end - ra.start) % 2 = 1
    /\ len(res.out[1]) < len(res.out[2])

\* ---------------------------------------------------------------- C11

\* C11: subdivide(n) of a range of length L, n >= 1, yields n ranges when
\* L >= n and none when L < n; what it yields is NonEmpty with start < end,
\* begins at the range's start, continues where the previous part ended,
\* ends at the range's end, has lengths that differ by at most one; once
\* it has returned None it yields nothing more.
C11_Subdivide ==
    res.op = "subdivide" =>
        LET L == ra.end - ra.start
            n == res.k
            out == res.out
            want == IF L >= n THEN n ELSE 0
        IN  /\ Len(out) <= want
            /\ res.nones > 0 => Len(out) = want
            /\ \A j \in 1 .. Len(out) :
                  /\ out[j].proof = NonEmpty
                  /\ out[j].start < out[j].end
                  /\ out[j].start = IF j = 1 THEN ra.start ELSE out[j - 1].end
                  /\ out[j].end <= ra.end
                  /\ j = n => out[j].end = ra.end
            /\ \A j, k \in 1 .. Len(out) :
                  len(out[j]) - len(out[k]) \in {-1, 0, 1}

\* 8 elements in 3 parts: 0..2, 2..5, 5..8, then None twice
C11_Witness ==
    /\ res.op = "subdivide" /\ res.k = 3
    /\ ra.start = 0 /\ ra.end = 8
    /\ res.nones = MaxNones
    /\ Len(res.out) = 3
    /\ <<res.out[1].start, res.out[1].end>> = <<0, 2>>
    /\ <<res.out[2].start, res.out[2].end>> = <<2, 5>>
    /\ <<res.out[3].start, res.out[3].end>> = <<5, 8>>

\* ---------------------------------------------------------------- C12

Positions(b) == b.at .. b.at + b.len - 1

\* C12: index_twice(r, s) is Ok exactly when r.end <= s.start, and then
\* borrows the elements of r and the elements of s, two regions with no
\* position in common; otherwise it is the error and borrows nothing; the
\* container is as it was.
C12_IndexTwice ==
    res.op = "index_twice" =>
        /\ res.out.ok <=> ra.end <= rb.start
        /\ res.out.ok =>
             /\ Positions(res.out.val[1]) = ra.start .. ra.end - 1
             /\ Positions(res.out.val[2]) = rb.start .. rb.end - 1
             /\ Positions(res.out.val[1]) \cap Positions(res.out.val[2]) = {}
             /\ Positions(res.out.val[1]) \cup Positions(res.out.val[2])
                   \subseteq 0 .. N - 1
        /\ ~res.out.ok => res.out = Err
        /\ arr = [i \in 1 .. N |-> i]

\* two NonEmpty ranges that touch are both borrowed
C12_Witness ==
    /\ res.op = "index_twice" /\ res.out.ok
    /\ ra.proof = NonEmpty /\ rb.proof = NonEmpty /\ ra.end = rb.start
    /\ res.out.val[1].len > 0 /\ res.out.val[2].len > 0

\* ---------------------------------------------------------------- C13

\* C13: swap(i, j) exchanges the elements at i and j and leaves the other
\* elements and the length as they were; a second swap(i, j) restores the
\* container; swap(i, i) changes nothing.
C13_Swap ==
    res.op = "swap" =>
        LET i == res.i.index + 1
            j == res.j.index + 1
        IN  /\ Len(arr) = Len(res.before)
            /\ res.n = 1 =>
                 /\ arr[i] = res.before[j] /\ arr[j] = res.before[i]
                 /\ \A k \in 1 .. Len(arr) : k \notin {i, j} => arr[k] = res.before[k]
                 /\ i = j => arr = res.before
            /\ res.n = 2 => arr = res.before

\* the first and the last of three elements swapped, and swapped back
C13_Witness ==
    /\ res.op = "swap" /\ res.n = 2
    /\ res.i.index = 0 /\ res.j.index = MaxLen - 1 /\ Len(arr) = MaxLen

\* ---------------------------------------------------------------- C14

\* C14: rotate1_up(r) puts the last element of r at r's first position and
\* every other element of r one position up; rotate1_down(r) puts the first
\* element of r at r's last position and every other element of r one
\* position down; neither changes an element outside r nor, when r has no
\* or one element, any element; rotate1_down(r) after rotate1_up(r)
\* restores the container.
C14_Rotate ==
    res.op \in {"rotate1_up", "rotate1_down"} =>
        LET was == res.before
            inside == ra.start + 1 .. ra.end
        IN  /\ Len(arr) = Len(was)
            /\ \A k \in 1 .. Len(arr) : k \notin inside => arr[k] = was[k]
            /\ ra.end - ra.start <= 1 => arr = was
            /\ res.op = "rotate1_up" /\ res.n = 1 /\ inside # {} =>
                 /\ arr[ra.start + 1] = was[ra.end]
                 /\ \A k \in inside : k # ra.start + 1 => arr[k] = was[k - 1]
            /\ res.op = "rotate1_down" /\ res.n = 1 /\ inside # {} =>
                 /\ arr[ra.end] = was[ra.start + 1]
                 /\ \A k \in inside : k # ra.end => arr[k] = was[k + 1]
            /\ res.n = 2 => arr = was

\* the whole of the longest container rotated up: the last element is first
C14_Witness ==
    /\ res.op = "rotate1_up" /\ res.n = 1
    /\ ra.start = 0 /\ ra.end = MaxLen /\ ra.proof = Unknown
    /\ arr[1] = MaxLen /\ arr[MaxLen] = MaxLen - 1

\* ---------------------------------------------------------------- C15

\* C15: advance(), advance_by(n) and advance_back() of a NonEmpty range
\* return true and move start to start + 1, start to start + n, end to
\* end - 1 exactly when start < end still holds afterwards; otherwise they
\* return false and leave the range as it was; the range is never empty
\* afterwards.
C15_Advance ==
    res.op \in {"advance", "advance_by", "advance_back"} =>
        LET stepped == res.out[1]
            r == res.out[2]
            start == IF res.op = "advance" THEN ra.start + 1
                     ELSE IF res.op = "advance_by" THEN ra.start + res.k
                     ELSE ra.start
            end == IF res.op = "advance_back" THEN ra.end - 1 ELSE ra.end
        IN  /\ stepped <=> start < end
            /\ stepped => r = [ra EXCEPT !.start = start, !.end = end]
            /\ ~stepped => r = ra
            /\ r.proof = NonEmpty /\ r.start < r.end

\* advance on a range of one element returns false
C15_Witness ==
    /\ res.op = "advance" /\ ra.end = ra.start + 1 /\ ra.proof = NonEmpty
    /\ res.out = <<FALSE, ra>>

\* ---------------------------------------------------------------- C16

\* C16: Range::split_at(k) is (start..start+k, start+k..end, true) when
\* k <= len and (start..end, end..end, false) when k > len; the two parts
\* are adjacent and join back to the range.
C16_SplitAt ==
    res.op = "split_at" =>
        LET k == res.k
            mid == IF k <= ra.end - ra.start THEN ra.start + k ELSE ra.end
            joined == join(res.out[1], res.out[2])
        IN  /\ res.out[1] = Range_from(ra.start, mid)
            /\ res.out[2] = Range_from(mid, ra.end)
            /\ res.out[3] <=> k <= ra.end - ra.start
            /\ res.out[1].end = res.out[2].start
            /\ joined.ok
            /\ joined.val.start = ra.start /\ joined.val.end = ra.end

\* a split past the end is clamped and says so
C16_Witness ==
    /\ res.op = "split_at" /\ res.k = ra.end - ra.start + 1
    /\ ra.start > 0 /\ ra.start < ra.end
    /\ res.out[2].start = ra.end /\ res.out[3] = FALSE

\* ---------------------------------------------------------------- C17

\* C17, as stated: for a NonEmpty index i of a container of N >= 2
\* elements, before(i).join(after(i)) succeeds and its result is nonempty.
C17_JoinSucceeds ==
    res.op = "before.join(after)" /\ N >= 2 =>
        res.out.ok /\ nonempty(res.out.val).ok

\* C17, as the code has it: for a NonEmpty index i of a container of any
\* length, before(i) is 0..i and after(i) is i+1..N, both of proof Unknown;
\* the first ends one before the second starts, so before(i).join(after(i))
\* is the error and there is no range to ask nonempty() of.
C17_JoinFails ==
    res.op = "before.join(after)" =>
        /\ before(N, ix) = Range_from(0, ix.index)
        /\ after(N, ix) = Range_from(ix.index + 1, N)
        /\ before(N, ix).end + 1 = after(N, ix).start
        /\ res.out = Err

\* the middle index of three elements: 0..1 and 2..3 do not join
C17_Witness ==
    /\ res.op = "before.join(after)" /\ N = MaxLen /\ ix.index = 1
    /\ ~res.out.ok

\* ---------------------------------------------------------------- C18

\* A PRange and a PSlice over the same elements: same start, same proof,
\* and the end of the one is the start of the other plus its length.
SameRange(p, s) ==
    p.start = s.start /\ p.proof = s.proof /\ p.end = ptr_offset(s.start, s.len)

\* C18: the PRange and the PSlice of the same start and length give
\* corresponding results for len, is_empty, nonempty, split_in_half, first,
\* upper_middle, last, past_the_end, tail, init, advance and advance_back,
\* and converting either to the other and back gives it again.
C18_Equivalent ==
    res # NoCall =>
        LET p == res.out[1]
            s == res.out[2]
        IN  /\ ~p.panic /\ ~s.panic
            /\ res.op \in {"len", "is_empty", "first", "upper_middle",
                           "past_the_end", "last"} => p.val = s.val
            /\ res.op = "nonempty" =>
                 /\ p.val.ok = s.val.ok
                 /\ p.val.ok => SameRange(p.val.val, s.val.val)
            /\ res.op = "split_in_half" =>
                 SameRange(p.val[1], s.val[1]) /\ SameRange(p.val[2], s.val[2])
            /\ res.op \in {"tail", "init"} => SameRange(p.val, s.val)
            /\ res.op \in {"advance", "advance_back"} =>
                 p.val[1] = s.val[1] /\ SameRange(p.val[2], s.val[2])
            /\ res.op = "from" =>
                 p.val = PRangeOver(ra) /\ s.val = PSliceOver(ra)

\* ---------------------------------------------------------------- C20

\* C20: lower_bound(v, elt) ends after at most len turns, each of which
\* reads one element, at the first index of the upper half of the NonEmpty
\* range then in hand, inside the slice; it returns an offset in 0..len,
\* the one lower_bound_raw_ptr returns; when v is ascending every element
\* before that offset is < elt and every element from it on is >= elt.
C20_LowerBound ==
    res.op = "lower_bound" =>
        /\ Len(res.reads) <= N
        /\ \A j \in 1 .. Len(res.reads) :
              LET r == res.reads[j][1]
                  at == res.reads[j][2]
              IN  /\ r.start < r.end /\ r.end <= N
                  /\ at = Index_new(r.start + (r.end - r.start) \div 2, NonEmpty)
                  /\ at.index < N
                  /\ j > 1 => len(r) < len(res.reads[j - 1][1])
        /\ res.over =>
              /\ res.out \in 0 .. N
              /\ lower_bound_raw_ptr(arr, res.elt) = Returned(res.out)
              /\ IsAscending(arr) =>
                    /\ \A k \in 1 .. res.out : arr[k] < res.elt
                    /\ \A k \in res.out + 1 .. N : arr[k] >= res.elt

\* ---------------------------------------------------------------- C21

\* C21: on an ascending slice of distinct elements binary_search(v, elt)
\* ends after at most len turns, each over a strictly shorter range and
\* reading inside the slice; it returns Ok(i) with v[i] = elt when elt is in
\* v, and otherwise Err(p) with p in 0..len, every element before p < elt
\* and every element from p on > elt; on the empty slice it returns Err(0).
C21_BinarySearch ==
    res.op = "binary_search" =>
        /\ Len(res.reads) <= N
        /\ \A j \in 1 .. Len(res.reads) :
              /\ res.reads[j][2].index < N
              /\ j > 1 => len(res.reads[j][1]) < len(res.reads[j - 1][1])
        /\ res.over =>
              IF \E k \in 1 .. N : arr[k] = res.elt
              THEN res.out.ok /\ res.out.val < N /\ arr[res.out.val + 1] = res.elt
              ELSE /\ ~res.out.ok
                   /\ res.out.val \in 0 .. N
                   /\ \A k \in 1 .. res.out.val : arr[k] < res.elt
                   /\ \A k \in res.out.val + 1 .. N : arr[k] > res.elt

\* the miss past the end of the slice of test_binary_search
C21_Witness ==
    /\ res.op = "binary_search" /\ res.over
    /\ arr = TestData /\ res.elt = 27 /\ res.out = ErrAt(7)

\* ---------------------------------------------------------------- C22

Count(a, x) == Cardinality({k \in 1 .. Len(a) : a[k] = x})
IsPermutation(a, b) ==
    /\ Len(a) = Len(b)
    /\ \A k \in 1 .. Len(a) : Count(a, a[k]) = Count(b, a[k])

\* Turns a call of quicksort_range on a slice of length n ends within: the
\* calls it makes are fewer than 2n + 2, each of at most 4n + 2 turns.
QsTurns(n) == (2 * n + 2) * (4 * n + 2)

\* C22: quicksort_range(v) ends (while a call is left it is at a step that
\* goes on, for no more than QsTurns(len) turns in all), on slices longer than the insertion-sort
\* threshold too, where each call splits its slice lo..hi at the scan
\* position p into a = lo..p and b = p..hi with lo <= p < hi; v is a
\* permutation of its input throughout, and sorted ascending at the end.
C22_Quicksort ==
    res.op = "quicksort_range" =>
        /\ IsPermutation(arr, res.input)
        /\ res.turns <= QsTurns(N)
        /\ res.pc \in {"enter", "insertion", "main", "back", "advance", "split"}
        /\ res.stack = <<>> => res.pc = "enter"
        /\ \A j \in 1 .. Len(res.parts) :
              LET top == res.parts[j][1]
                  a == res.parts[j][2]
                  b == res.parts[j][3]
              IN  /\ top.hi - top.lo > QS_INSERTION_SORT_THRESH
                  /\ a.lo = top.lo /\ a.hi = b.lo /\ b.hi = top.hi
                  /\ a.hi < top.hi
        /\ res.stack = <<>> => IsAscending(arr)

\* a slice longer than the threshold, sorted after a call split it at its
\* front (a empty, b the whole slice) and the call on b split it again
C22_Witness ==
    /\ res.op = "quicksort_range" /\ res.stack = <<>>
    /\ N > QS_INSERTION_SORT_THRESH
    /\ Len(res.parts) >= 2
    /\ res.parts[1][3] = res.parts[1][1] /\ res.parts[2][1] = res.parts[1][1]
    /\ arr # res.input /\ IsAscending(arr)

\* ---------------------------------------------------------------- C23

is_minheap(a) ==
    \A k \in 0 .. Len(a) - 1 :
        /\ 2 * k + 1 < Len(a) => a[k + 1] <= a[2 * k + 2]
        /\ 2 * k + 2 < Len(a) => a[k + 1] <= a[2 * k + 3]

\* C23: heapify(v) ends (within (len + 1)^2 turns, never by a panic); v is
\* a permutation of its input throughout; every child index it reads at
\* is NonEmpty and below len; at the end v[k] <= v[2k+1] and v[k] <= v[2k+2]
\* wherever those offsets are below len.
C23_Heapify ==
    res.op = "heapify" =>
        /\ IsPermutation(arr, res.input)
        /\ fault = "none"
        /\ res.turns <= (N + 1) * (N + 1)
        /\ res.pc \in {"for", "while", "done"}
        /\ \A j \in 1 .. Len(res.used) :
              res.used[j].proof = NonEmpty /\ res.used[j].index < N
        /\ res.pc = "done" => is_minheap(arr)

\* the heap test_heapify expects of its data
C23_Witness ==
    /\ res.op = "heapify" /\ res.pc = "done"
    /\ res.input = HeapData
    /\ arr = <<3, 7, 8, 11, 15, 9, 26, 14, 12, 22, 22>>

\* ---------------------------------------------------------------- C24

MergeOps == {"merge_internal_indices", "merge_internal_ranges"}

\* what both statements of C24 say of the steps, of data and of the error
MergeCommon ==
    /\ res.turns <= N + 2
    /\ res.pc \in {"scope", "loop", "Ok", "Err", "panic"}
    /\ IsPermutation(arr \o res.buffer, res.input \o res.was)
    /\ res.pc = "Ok" => IsPermutation(arr, res.input) /\ IsAscending(arr)
    /\ res.pc = "Err" <=> (res.left_end > N \/ res.left_end > Len(res.was))
                           /\ ~(fault = "panic")
    /\ res.pc \in {"Err", "panic"} => arr = res.input /\ res.buffer = res.was

\* C24 as it is stated: at the end the buffer holds its original contents,
\* each element where it was.
C24_BufferAsItWas ==
    res.op \in MergeOps => MergeCommon /\ (res.pc = "Ok" => res.buffer = res.was)

\* C24: merge_internal_indices and merge_internal_ranges end within len + 2
\* steps; data and buffer together hold the same elements throughout; at
\* the end data is sorted and a permutation of its input, and the buffer
\* holds its original elements, the first left_end of them in some order
\* and the others where they were; a left_end past data or buffer is the
\* error, which changes nothing; a panic is the debug_assert on empty data.
C24_Merge ==
    res.op \in MergeOps =>
        /\ MergeCommon
        /\ res.pc = "Ok" =>
              /\ IsPermutation(res.buffer, res.was)
              /\ \A k \in res.left_end + 1 .. Len(res.was) : res.buffer[k] = res.was[k]
        /\ res.pc = "panic" => N = 0

\* a merge that ends with the buffer's elements in another order
C24_Witness ==
    /\ res.op \in MergeOps /\ res.pc = "Ok"
    /\ arr # res.input /\ IsAscending(arr)
    /\ res.buffer # res.was

\* ---------------------------------------------------------------- C25

SteppingOps == {"forward", "backward", "forward_by", "Range::forward_by"}

\* C25: forward_by(idx, n) of a range and of the container returns true
\* with idx at exactly idx + n when that sum is below the range's end (the
\* container's length), and otherwise returns false with idx as it was;
\* forward steps iff idx + 1 < N, backward iff idx > 0; no call panics,
\* wraps around or moves idx down, backward apart, which moves it by one.
C25_Stepping ==
    res.op \in SteppingOps =>
        /\ ~res.out.panic
        /\ LET stepped == res.out.val[1]
               idx == res.out.val[2]
               bound == IF res.op = "Range::forward_by" THEN ra.end ELSE N
           IN  IF res.op = "backward"
               THEN /\ stepped <=> ix.index > 0
                    /\ idx.index = IF stepped THEN ix.index - 1 ELSE ix.index
               ELSE /\ stepped <=> ix.index + res.k < bound
                    /\ idx.index = IF stepped THEN ix.index + res.k ELSE ix.index
                    /\ idx.index >= ix.index

\* ---------------------------------------------------------------- C26

\* C26: the pointer range scan_tail_(idx, f) returns lies in the container
\* (begin <= start <= end <= container end) for every pointer index, one
\* typed Unknown at the container's end included; f is applied only to
\* elements of the container, from idx down, up to the first that f
\* refuses or to the container's start; reading v[range] stays in bounds.
C26_ScanTail ==
    res.op \in {"scan_tail_", "v[scan_tail_]"} =>
        LET begin == BufAddr(0)
            end == ptr_offset(BufAddr(0), N)
            r == res.out.range
            applied == res.out.applied
        IN  /\ begin <= r.start /\ r.start <= r.end /\ r.end <= end
            /\ fault = "none"
            /\ \A j \in 1 .. Len(applied) :
                  /\ begin <= applied[j] /\ applied[j] < end
                  /\ applied[j] = ptr_offset(res.index.idx, -j)
                  /\ j < Len(applied) => Deref(arr, applied[j]) \in res.f
            /\ r.start = IF applied # <<>> /\ Deref(arr, applied[Len(applied)]) \notin res.f
                         THEN ptr_offset(applied[Len(applied)], 1)
                         ELSE begin

\* ---------------------------------------------------------------- C27

\* C27: scan_from(idx, pred) returns idx .. idx+1+k, k the number of
\* consecutive elements directly after idx that satisfy pred, and
\* scan_from_rev(idx, pred) returns idx-k .. idx+1, k the number directly
\* before idx; either range is NonEmpty, lies within 0 .. N and contains
\* idx, and pred is never applied to the element at idx.
C27_Run(from, step, k) ==
    /\ \A j \in 1 .. k : arr[from + step * j + 1] \in res.f
    /\ LET stop == from + step * (k + 1)
       IN  stop < 0 \/ stop >= N \/ arr[stop + 1] \notin res.f

C27_Scan ==
    /\ res.op = "scan_from" =>
          \E k \in 0 .. N :
              /\ C27_Run(res.index.index, 1, k)
              /\ res.out = [start |-> res.index.index,
                            end |-> res.index.index + 1 + k, proof |-> NonEmpty]
    /\ res.op = "scan_from_rev" =>
          \E k \in 0 .. N :
              /\ C27_Run(res.index.index, -1, k)
              /\ res.out = [start |-> res.index.index - k,
                            end |-> res.index.index + 1, proof |-> NonEmpty]
    /\ res.op \in {"scan_from", "scan_from_rev"} =>
          /\ 0 <= res.out.start /\ res.out.end <= N
          /\ res.out.start <= res.index.index /\ res.index.index < res.out.end
          /\ res.index.index \notin res.applied
          /\ res.applied \subseteq 0 .. N - 1

\* test_scan: on [0, 0, 0, 1, 2], from the last index of the range 0..3 that
\* the scan from 0 with "is zero" gave, the scan with "is not zero" gives 2..5.
C27_Witness ==
    /\ arr = ScanData
    /\ ra = [start |-> 0, end |-> 3, proof |-> NonEmpty]
    /\ res.op = "scan_from" /\ res.index.index = 2 /\ res.f = {1, 2}
    /\ res.out = [start |-> 2, end |-> 5, proof |-> NonEmpty]

\* ---------------------------------------------------------------- C28

\* C28: push(e) on an index-only container returns the NonEmpty index whose
\* offset is the length before the call; afterwards the length is one
\* larger, container[returned index] = e and every element at a smaller
\* offset is as it was.
C28_Push ==
    res.op \in {"push", "v[push]"} =>
        /\ res.out = [index |-> Len(res.before), proof |-> NonEmpty]
        /\ Len(arr) = Len(res.before) + 1
        /\ arr[res.out.index + 1] = res.element
        /\ \A k \in 1 .. Len(res.before) : arr[k] = res.before[k]
        /\ fault = "none"
        /\ res.op = "v[push]" => res.read = res.element

\* test_vec: 1 then 2 pushed onto [0, 1] give [0, 1, 1, 2], and the index
\* the second push returned reads 2.
C28_Witness ==
    /\ arr = <<0, 1, 1, 2>>
    /\ res.op = "v[push]" /\ res.before = <<0, 1, 1>> /\ res.element = 2
    /\ res.out.index = 3 /\ res.read = 2

\* ---------------------------------------------------------------- C29

\* C29: split_at(idx) returns (0..idx, idx..N), the second part with idx's
\* proof; split_after(idx) returns (0..idx+1 NonEmpty, idx+1..N);
\* split_around(r) returns (0..r.start, r.end..N); the pieces are adjacent
\* in order (for split_around with r between them) and joined with join
\* they give range() = 0..N; before(idx) is 0..idx and after(idx) is
\* idx+1..N.
C29_Joined(pieces) ==
    IF Len(pieces) = 2 THEN join(pieces[1], pieces[2])
    ELSE LET sr == join(pieces[1], pieces[2])
         IN  IF sr.ok THEN join(sr.val, pieces[3]) ELSE Err

C29_Partition(pieces) ==
    /\ \A j \in 1 .. Len(pieces) - 1 : pieces[j].end = pieces[j + 1].start
    /\ C29_Joined(pieces).ok
    /\ Range_eq(C29_Joined(pieces).val, range(N))
    /\ C29_Joined(pieces).val.start = 0 /\ C29_Joined(pieces).val.end = N

C29_Splits ==
    /\ res.op = "Container::split_at" =>
          /\ res.out = <<[start |-> 0, end |-> res.k.index, proof |-> Unknown],
                         [start |-> res.k.index, end |-> N, proof |-> res.k.proof]>>
          /\ C29_Partition(res.out)
    /\ res.op = "split_after" =>
          /\ res.out = <<[start |-> 0, end |-> res.k.index + 1, proof |-> NonEmpty],
                         [start |-> res.k.index + 1, end |-> N, proof |-> Unknown]>>
          /\ C29_Partition(res.out)
    /\ res.op = "split_around" =>
          /\ res.out = <<[start |-> 0, end |-> res.k.start, proof |-> Unknown],
                         [start |-> res.k.end, end |-> N, proof |-> Unknown]>>
          /\ C29_Partition(<<res.out[1], res.k, res.out[2]>>)
    /\ res.op = "Container::before" =>
          res.out = [start |-> 0, end |-> res.k.index, proof |-> Unknown]
    /\ res.op = "Container::after" =>
          res.out = [start |-> res.k.index + 1, end |-> N, proof |-> Unknown]
    /\ res.op \in {"Container::split_at", "split_after", "split_around"} =>
          \A j \in 1 .. 2 : RangeOK(res.out[j], N)

\* split_after at the middle index of a container of three: 0..2 and 2..3
C29_Witness ==
    /\ N = 3
    /\ res.op = "split_after" /\ res.k.index = 1
    /\ res.out[1].end = 2 /\ res.out[2].start = 2 /\ res.out[2].end = 3

\* ---------------------------------------------------------------- C30

\* C30: under any interleaving of next and next_back on the iterator of a
\* range start..end, every offset of [start, end) is yielded exactly once
\* and no other: next yields the remaining offsets ascending from the
\* front, next_back descending from the back, into_range() is the
\* remainder not yet yielded, and once end - start items were yielded
\* both calls return None and go on doing so.
C30_Of(side) == SelectSeq(res.yielded, LAMBDA y : y.side = side)

C30_RangeIter ==
    res.op = "RangeIter" =>
        LET front == C30_Of("next")
            back == C30_Of("next_back")
            r == res.range
        IN  /\ \A j \in 1 .. Len(front) :
                  front[j].item = Index_new(r.start + j - 1, NonEmpty)
            /\ \A j \in 1 .. Len(back) :
                  back[j].item = Index_new(r.end - j, NonEmpty)
            /\ \A j \in 1 .. Len(res.yielded) :
                  /\ r.start <= res.yielded[j].item.index
                  /\ res.yielded[j].item.index < r.end
                  /\ \A k \in 1 .. Len(res.yielded) :
                        res.yielded[j].item.index = res.yielded[k].item.index => j = k
            /\ RangeIter_into_range(res.it)
                   = Range_from(r.start + Len(front), r.end - Len(back))
            /\ Len(res.yielded) <= r.end - r.start
            /\ Len(res.yielded) = r.end - r.start <=>
                  /\ RangeIter_next(res.it) = <<None, res.it>>
                  /\ RangeIter_next_back(res.it) = <<None, res.it>>
            /\ res.nones > 0 =>
                  {res.yielded[j].item.index : j \in 1 .. Len(res.yielded)}
                      = r.start .. r.end - 1

\* the same of PRangeIter, in the addresses of a pointer range
C30_PRangeIter ==
    res.op = "PRangeIter" =>
        LET front == C30_Of("next")
            back == C30_Of("next_back")
            r == res.range
        IN  /\ \A j \in 1 .. Len(front) :
                  front[j].item = PIndex_new(ptr_offset(r.start, j - 1), NonEmpty)
            /\ \A j \in 1 .. Len(back) :
                  back[j].item = PIndex_new(ptr_offset(r.end, -j), NonEmpty)
            /\ \A j \in 1 .. Len(res.yielded) :
                  /\ r.start <= res.yielded[j].item.idx
                  /\ res.yielded[j].item.idx < r.end
                  /\ \A k \in 1 .. Len(res.yielded) :
                        res.yielded[j].item.idx = res.yielded[k].item.idx => j = k
            /\ res.it = PRange_new(ptr_offset(r.start, Len(front)),
                                   ptr_offset(r.end, -Len(back)), Unknown)
            /\ Len(res.yielded) * tsize <= r.end - r.start
            /\ Len(res.yielded) * tsize = r.end - r.start <=>
                  /\ PRangeIter_next(res.it) = <<None, res.it>>
                  /\ PRangeIter_next_back(res.it) = <<None, res.it>>
            /\ res.nones > 0 =>
                  {res.yielded[j].item.idx : j \in 1 .. Len(res.yielded)}
                      = {a \in r.start .. r.end - 1 : (a - r.start) % ElemSize = 0}

C30_Iterators == C30_RangeIter /\ C30_PRangeIter

\* 0..3 iterated front, back, front, and None from both ends after that
C30_Witness ==
    /\ res.op = "RangeIter"
    /\ res.range.start = 0 /\ res.range.end = 3
    /\ Len(res.yielded) = 3
    /\ res.yielded[1].side = "next" /\ res.yielded[1].item.index = 0
    /\ res.yielded[2].side = "next_back" /\ res.yielded[2].item.index = 2
    /\ res.yielded[3].side = "next" /\ res.yielded[3].item.index = 1
    /\ res.nones = MaxNones

=============================================================================
